---------------------------- MODULE Spec2Model ----------------------------
(***************************************************************************)
(* Confluence Storage Format -> Markdown conversion and the Confluence API *)
(* client of adrianto-nanovest/Archon.                                     *)
(*                                                                         *)
(* The programs modelled, each with its own specification:                 *)
(*   SpecProcessor      ConfluenceProcessor.html_to_markdown               *)
(*                      (python/src/server/services/confluence)            *)
(*   SpecClient         ConfluenceClient and validate_space_key            *)
(*   SpecUnknownMacro   MacroParser.parse_unknown_macro                    *)
(*   SpecRenderContent  one call of EnhancedContentRenderer.render_content *)
(*   SpecRendererSeq    calls of render_content on one renderer in         *)
(*                      sequence                                           *)
(*   SpecRenderer       concurrent extract_content tasks on one            *)
(*                      ContentExtractor (docs/bmad/examples)              *)
(*   SpecTable          one call of EnhancedContentRenderer.               *)
(*                      convert_confluence_table_to_markdown               *)
(*   SpecEmbedUrl       MacroParser._extract_original_url_from_iframe      *)
(*   SpecRewriter       EnhancedContentRenderer.                           *)
(*                      _process_element_recursively, applied twice        *)
(*   SpecReplaceMacro   render_content putting a macro's replacement in    *)
(*                      the macro's place                                  *)
(*   SpecTableSections  render_content finding the section of each table   *)
(* A specification leaves the variables of the other programs unchanged.   *)
(***************************************************************************)
EXTENDS Integers, Sequences, FiniteSets, TLC

VARIABLES
  \* ---- ConfluenceProcessor ----
  macro_handlers,         \* self.macro_handlers: macro name -> handler
  generic_macro_handler,  \* self.generic_macro_handler, or None
  element_handlers,       \* self.element_handlers, in insertion order
  html,                   \* the html argument: a parsed-able tree or Unparseable
  soup,                   \* per node: "macro" (original form) or "replaced"
  ppc,                    \* position in html_to_markdown
  macro_idx,              \* loop index of _process_macros
  elem_idx,               \* loop index of _process_special_elements
  macros_processed,
  macros_failed,
  handlers_processed,
  handlers_failed,
  invoked,                \* log: handler invocations, in order
  failed_nodes,           \* macro nodes whose handler raised
  presult,                \* what html_to_markdown gave its caller
  \* ---- ConfluenceClient and validate_space_key ----
  cpc,                    \* position in the client operation
  cop,                    \* the operation called and its argument
  attempt,                \* loop variable of _retry_with_backoff
  api_calls,              \* log: invocations of func (calls of the SDK client)
  sleeps,                 \* log: delays passed to asyncio.sleep
  last_error,             \* what func raised in its last failed invocation
  cresult,                \* what the operation gave its caller
  \* ---- MacroParser.parse_unknown_macro ----
  macro,                  \* the macro tag handed to the fallback parser
  replacement_obj,        \* the fragment it returned, or None before the call
  \* ---- EnhancedContentRenderer, one instance shared by the callers ----
  lists,                  \* the list objects created so far, by identity
  fields,                 \* self.external_links, ...: which list each names
  macro_parser,           \* self.macro_parser: the lists it was given, or None
  user_info_cache,        \* self.user_info_cache
  task,                   \* per caller: its render_content call in progress
  running,                \* the coroutine that holds the event loop, or None
  observed,               \* per caller: the accumulators as read after the call
  \* ---- EnhancedContentRenderer.convert_confluence_table_to_markdown ----
  table_html,             \* the html_content argument, as parsed
  tpc,                    \* position in convert_confluence_table_to_markdown
  structure,              \* what detect_header_and_structure returned
  table_matrix,           \* matrix of build_table_matrix
  row_idx,                \* loop index of build_table_matrix
  placed,                 \* log: where each data cell was put
  tresult,                \* what the conversion gave its caller
  \* ---- MacroParser._extract_original_url_from_iframe ----
  embed_url,              \* the embed_url argument
  original_url,           \* what the resolver returned
  \* ---- EnhancedContentRenderer._process_element_recursively ----
  element,                \* the elements below the element argument
  status,                 \* per element: in the tree, or what became of it
  pass,                   \* which application to the same tree is running
  todo,                   \* what is left of the five loops of the pass
  after_first,            \* the tree as the first application left it
  \* ---- render_content: a macro tag gives way to its replacement ----
  replacement,            \* what the macro's parser returned
  new_nodes,              \* the nodes to put in the macro's place
  pending_nodes,          \* the new nodes the insertion loop has yet to take
  current_insertion_point,\* the node the next new node is inserted after
  contents,               \* the children of the macro's parent, in order
  original_contents,      \* the same before the replacement
  \* ---- render_content: the section each table stands in ----
  html_string,            \* html_content: str(soup), taken before the loop
  placeholder_idx,        \* the tables handled so far
  conversions             \* the arguments of every table conversion so far

procVars == <<macro_handlers, generic_macro_handler, element_handlers, html,
              soup, ppc, macro_idx, elem_idx, macros_processed, macros_failed,
              handlers_processed, handlers_failed, invoked, failed_nodes,
              presult>>

cliVars == <<cpc, cop, attempt, api_calls, sleeps, last_error, cresult>>

umVars == <<macro, replacement_obj>>

rendVars == <<lists, fields, macro_parser, user_info_cache, task, running,
              observed>>

tblVars == <<table_html, tpc, structure, table_matrix, row_idx, placed,
             tresult>>

urlVars == <<embed_url, original_url>>
rwVars == <<element, status, pass, todo, after_first>>
spliceVars == <<replacement, new_nodes, pending_nodes,
                current_insertion_point, contents, original_contents>>
secVars == <<html_string, placeholder_idx, conversions>>
fnVars == <<urlVars, rwVars, spliceVars, secVars>>

vars == <<procVars, cliVars, umVars, rendVars, tblVars, fnVars>>

None == "None"

\* The callers that share one renderer.
Tasks == {"t1", "t2"}

\* The accumulator attributes of the renderer.
FieldNames == {"external_links", "user_mentions", "internal_links",
               "asset_links", "jira_issue_links"}

\* The list objects, by identity: the object a field was bound to by __init__
\* or by the reset at the start of a caller's call (lines 617-621), and the
\* one external_links is rebound to by _process_external_links_soup
\* (line 830) in a caller's call.
ListIds == (({"init"} \cup Tasks) \X FieldNames) \cup (Tasks \X {"ext"})

NoEntries == [f \in FieldNames |-> <<>>]

\* A caller with no render_content call in progress.
IdleTask ==
  [pc |-> "idle", soup |-> <<>>, i |-> 0, via |-> FALSE,
   jira_client |-> FALSE, confluence_client |-> FALSE, parser |-> None,
   trace |-> <<>>, own |-> NoEntries, result |-> None]

\* EnhancedContentRenderer.__init__ (lines 585-595): five empty lists, an
\* empty cache and no macro parser.
NewRenderer ==
  /\ lists = [id \in ListIds |-> <<>>]
  /\ fields = [f \in FieldNames |-> <<"init", f>>]
  /\ macro_parser = None
  /\ user_info_cache = {}
  /\ task = [t \in Tasks |-> IdleTask]
  /\ running = None
  /\ observed = [t \in Tasks |-> None]

\* The fallback parser before any call.
IdleUnknownMacro ==
  /\ macro = None
  /\ replacement_obj = None

\* The client before any operation is called.
IdleClient ==
  /\ cpc = "idle"
  /\ cop = None
  /\ attempt = 0
  /\ api_calls = <<>>
  /\ sleeps = <<>>
  /\ last_error = None
  /\ cresult = None

\* No table conversion is in progress.
IdleTable ==
  /\ table_html = None
  /\ tpc = "idle"
  /\ structure = None
  /\ table_matrix = <<>>
  /\ row_idx = 0
  /\ placed = {}
  /\ tresult = None

IdleUrl ==
  /\ embed_url = None
  /\ original_url = [kind |-> "pending"]

IdleRewriter ==
  /\ element = <<>>
  /\ status = <<>>
  /\ pass = 0
  /\ todo = <<>>
  /\ after_first = <<>>

IdleSplice ==
  /\ replacement = [type |-> "None", nodes |-> <<>>]
  /\ new_nodes = <<>>
  /\ pending_nodes = <<>>
  /\ current_insertion_point = [kind |-> "none", id |-> 0]
  /\ contents = <<>>
  /\ original_contents = <<>>

IdleSections ==
  /\ html_string = <<>>
  /\ placeholder_idx = 0
  /\ conversions = <<>>

\* No call of a helper function of the renderer is in progress.
IdleFunctions ==
  /\ IdleUrl
  /\ IdleRewriter
  /\ IdleSplice
  /\ IdleSections

(***************************************************************************)
(* ConfluenceProcessor                                                     *)
(***************************************************************************)

\* Bounds of the documents and registries explored.
MaxNodes == 2
MaxElementHandlers == 2

\* ac:name values of the macro nodes; NoName is a node without the attribute.
NoName == "<no ac:name>"
MacroNames == {"code", "panel", "unknown"}
AttrValues == MacroNames \cup {NoName}

\* Handler objects that can be registered for a name.
HandlerIds == {"h1", "h2"}
GenericHandler == "generic"
RegistrableNames == {"code", "unknown"}
ElementHandlerNames == <<"user", "page", "image">>

\* An html argument BeautifulSoup raises on (not a string).
Unparseable == <<[name |-> "unparseable", parent |-> 0]>>

\* A document: its ac:structured-macro nodes in document order, each with
\* the index of the macro enclosing it (0: none).
RECURSIVE Ancestors(_, _)
Ancestors(doc, n) ==
  IF n = 0 \/ doc[n].parent = 0 THEN {}
  ELSE {doc[n].parent} \cup Ancestors(doc, doc[n].parent)

IsPreorder(doc) ==
  \A n \in 1..Len(doc) :
    /\ doc[n].parent < n
    /\ doc[n].parent # 0 =>
         doc[n].parent \in ({n - 1} \cup Ancestors(doc, n - 1))

Documents ==
  { d \in UNION { [1..k -> [name : AttrValues, parent : 0..(MaxNodes - 1)]]
                  : k \in 0..MaxNodes } : IsPreorder(d) }

Registries ==
  UNION { [S -> HandlerIds] : S \in SUBSET RegistrableNames }

ElementRegistries ==
  { SubSeq(ElementHandlerNames, 1, k) : k \in 0..MaxElementHandlers }

\* The mutant of FindAllMacros: the macro nodes in reverse document order.
FindAllMacrosReversed(doc) == [n \in 1..Len(doc) |-> Len(doc) + 1 - n]

\* soup.find_all("ac:structured-macro"): every macro node, document order.
FindAllMacros(doc) == [n \in 1..Len(doc) |-> n]

\* macro_tag.get("ac:name", "unknown")
MacroNameOf(node) == IF node.name = NoName THEN "unknown" ELSE node.name

\* The mutant of LookupHandler: a fallback handler is always there.
LookupHandlerDefaultFallback(name) ==
  IF name \in DOMAIN macro_handlers THEN macro_handlers[name]
  ELSE GenericHandler

\* The mutant of LookupHandler: the fallback shadows the registry.
LookupHandlerFallbackFirst(name) ==
  IF generic_macro_handler # None THEN generic_macro_handler
  ELSE IF name \in DOMAIN macro_handlers THEN macro_handlers[name]
  ELSE None

\* self.macro_handlers.get(macro_name), elif self.generic_macro_handler,
\* else no handler.
LookupHandler(name) ==
  IF name \in DOMAIN macro_handlers THEN macro_handlers[name]
  ELSE IF generic_macro_handler # None THEN generic_macro_handler
  ELSE None

\* The mutant of AfterMacro: a handler failure ends the pass.
AfterMacroAbortOnFailure(idx, outcome) ==
  IF outcome = "raise" THEN Len(html) + 1 ELSE idx + 1

\* Where the loop of _process_macros goes after an iteration: the except
\* clause of lines 195-201 falls through to the next macro tag.
AfterMacro(idx, outcome) == idx + 1

\* The mutant of AfterElementHandler: a handler failure ends the stage.
AfterElementHandlerAbortOnFailure(idx, outcome) ==
  IF outcome = "raise" THEN Len(element_handlers) + 1 ELSE idx + 1

\* Where the loop of _process_special_elements goes after an iteration
\* (lines 247-252).
AfterElementHandler(idx, outcome) == idx + 1

InitProcessor ==
  /\ macro_handlers \in Registries
  /\ generic_macro_handler \in {None, GenericHandler}
  /\ element_handlers \in ElementRegistries
  /\ html \in Documents \cup {Unparseable}
  /\ soup = <<>>
  /\ ppc = "start"
  /\ macro_idx = 0
  /\ elem_idx = 0
  /\ macros_processed = 0
  /\ macros_failed = 0
  /\ handlers_processed = 0
  /\ handlers_failed = 0
  /\ invoked = <<>>
  /\ failed_nodes = {}
  /\ presult = None
  /\ IdleClient
  /\ IdleUnknownMacro
  /\ NewRenderer
  /\ IdleTable
  /\ IdleFunctions

\* html_to_markdown, line 105: BeautifulSoup(html, "html.parser"); a failure
\* goes to the except clause of line 129, which logs and re-raises.
ParseHtml ==
  /\ ppc = "start"
  /\ IF html = Unparseable
     THEN /\ ppc' = "raised"
          /\ presult' = [kind |-> "raise", stage |-> "parse"]
          /\ soup' = soup
     ELSE /\ ppc' = "macros"
          /\ soup' = [n \in 1..Len(html) |-> "macro"]
          /\ presult' = presult
  /\ macro_idx' = 1
  /\ UNCHANGED <<macro_handlers, generic_macro_handler, element_handlers, html,
                 elem_idx, macros_processed, macros_failed,
                 handlers_processed, handlers_failed, invoked, failed_nodes>>
  /\ UNCHANGED <<cliVars, umVars, rendVars, tblVars, fnVars>>

\* One iteration of the loop of _process_macros (lines 166-201) on a node
\* for which a handler is found. The handler either returns, leaving the
\* node or replacing it, or raises; the except clause counts the failure and
\* leaves the tree as it is.
ProcessMacro ==
  /\ ppc = "macros"
  /\ macro_idx <= Len(html)
  /\ LET node == FindAllMacros(html)[macro_idx]
         name == MacroNameOf(html[node])
         handler == LookupHandler(name)
     IN /\ handler # None
        /\ invoked' = Append(invoked, [stage |-> "macro", handler |-> handler,
                                       node |-> node, name |-> name])
        /\ \E outcome \in {"keep", "replace", "raise"} :
             /\ IF outcome = "raise"
                THEN /\ macros_failed' = macros_failed + 1
                     /\ failed_nodes' = failed_nodes \cup {node}
                     /\ UNCHANGED <<macros_processed, soup>>
                ELSE /\ macros_processed' = macros_processed + 1
                     /\ soup' = IF outcome = "replace"
                                THEN [soup EXCEPT ![node] = "replaced"]
                                ELSE soup
                     /\ UNCHANGED <<macros_failed, failed_nodes>>
             /\ macro_idx' = AfterMacro(macro_idx, outcome)
  /\ UNCHANGED <<macro_handlers, generic_macro_handler, element_handlers, html,
                 ppc, elem_idx, handlers_processed, handlers_failed, presult>>
  /\ UNCHANGED <<cliVars, umVars, rendVars, tblVars, fnVars>>

\* The else branch of lines 189-193: neither a handler nor a fallback.
SkipUnhandledMacro ==
  /\ ppc = "macros"
  /\ macro_idx <= Len(html)
  /\ LookupHandler(MacroNameOf(html[FindAllMacros(html)[macro_idx]])) = None
  /\ macro_idx' = macro_idx + 1
  /\ UNCHANGED <<macro_handlers, generic_macro_handler, element_handlers, html,
                 soup, ppc, elem_idx, macros_processed, macros_failed,
                 handlers_processed, handlers_failed, invoked, failed_nodes,
                 presult>>
  /\ UNCHANGED <<cliVars, umVars, rendVars, tblVars, fnVars>>

\* _process_macros returns (no macro at line 157, or the loop ended) and
\* _process_special_elements starts; with no element handler it returns at
\* once (line 226).
FinishMacros ==
  /\ ppc = "macros"
  /\ macro_idx > Len(html)
  /\ ppc' = IF Len(element_handlers) = 0 THEN "markdown" ELSE "elements"
  /\ elem_idx' = 1
  /\ UNCHANGED <<macro_handlers, generic_macro_handler, element_handlers, html,
                 soup, macro_idx, macros_processed, macros_failed,
                 handlers_processed, handlers_failed, invoked, failed_nodes,
                 presult>>
  /\ UNCHANGED <<cliVars, umVars, rendVars, tblVars, fnVars>>

\* One iteration of the loop of _process_special_elements (lines 239-252).
RunElementHandler ==
  /\ ppc = "elements"
  /\ elem_idx <= Len(element_handlers)
  /\ invoked' = Append(invoked, [stage |-> "element",
                                 handler |-> element_handlers[elem_idx],
                                 node |-> 0, name |-> None])
  /\ \E outcome \in {"ok", "raise"} :
       /\ IF outcome = "raise"
          THEN /\ handlers_failed' = handlers_failed + 1
               /\ UNCHANGED handlers_processed
          ELSE /\ handlers_processed' = handlers_processed + 1
               /\ UNCHANGED handlers_failed
       /\ elem_idx' = AfterElementHandler(elem_idx, outcome)
  /\ ppc' = IF elem_idx' > Len(element_handlers) THEN "markdown" ELSE ppc
  /\ UNCHANGED <<macro_handlers, generic_macro_handler, element_handlers, html,
                 soup, macro_idx, macros_processed, macros_failed,
                 failed_nodes, presult>>
  /\ UNCHANGED <<cliVars, umVars, rendVars, tblVars, fnVars>>

\* Lines 115-133: markdownify of the tree; its result is returned, and a
\* failure of it is logged and re-raised by the except clause.
ConvertToMarkdown ==
  /\ ppc = "markdown"
  /\ invoked' = Append(invoked, [stage |-> "markdown", handler |-> "markdownify",
                                 node |-> 0, name |-> None])
  /\ \E outcome \in {"ok", "raise"} :
       IF outcome = "raise"
       THEN /\ ppc' = "raised"
            /\ presult' = [kind |-> "raise", stage |-> "markdown"]
       ELSE /\ ppc' = "returned"
            /\ presult' = [kind |-> "return", stage |-> "markdown",
                            metadata |-> <<>>]
  /\ UNCHANGED <<macro_handlers, generic_macro_handler, element_handlers, html,
                 soup, macro_idx, elem_idx, macros_processed, macros_failed,
                 handlers_processed, handlers_failed, failed_nodes>>
  /\ UNCHANGED <<cliVars, umVars, rendVars, tblVars, fnVars>>

NextProcessor ==
  \/ ParseHtml
  \/ ProcessMacro
  \/ SkipUnhandledMacro
  \/ FinishMacros
  \/ RunElementHandler
  \/ ConvertToMarkdown

SpecProcessor == InitProcessor /\ [][NextProcessor]_vars

(***************************************************************************)
(* Claims about ConfluenceProcessor                                        *)
(***************************************************************************)

InvocationsOf(stage, handler, node) ==
  { i \in 1..Len(invoked) : /\ invoked[i].stage = stage
                            /\ invoked[i].handler = handler
                            /\ invoked[i].node = node }

MacroPassOver == html # Unparseable /\ ppc \in {"elements", "markdown", "returned", "raised"}
ElementPassOver == html # Unparseable /\ ppc \in {"markdown", "returned", "raised"}
CallOver == ppc \in {"returned", "raised"}

\* C1: whatever handlers raise, once the macro pass is over a handler has
\* been invoked exactly once for every macro node that has one, once the
\* element pass is over every registered element handler has run exactly
\* once, the Markdown conversion has run when the call is over, and a call
\* that raised did so in parsing or in the Markdown conversion, never
\* because of a macro or element handler.
C1_HandlerFailuresAreIsolated ==
  /\ MacroPassOver =>
       \A n \in 1..Len(html) :
         LET h == LookupHandler(MacroNameOf(html[n]))
         IN h # None => Cardinality(InvocationsOf("macro", h, n)) = 1
  /\ ElementPassOver =>
       \A k \in 1..Len(element_handlers) :
         Cardinality(InvocationsOf("element", element_handlers[k], 0)) = 1
  /\ (CallOver /\ html # Unparseable) =>
       Cardinality(InvocationsOf("markdown", "markdownify", 0)) = 1
  /\ ppc = "raised" => presult.stage \in {"parse", "markdown"}
  /\ (ppc = "returned") => presult.kind = "return"

\* C1 witness: a call returned although a macro handler raised before
\* another macro was handled and the first of two element handlers raised.
C1_Witness ==
  /\ ppc = "returned"
  /\ \E n \in failed_nodes : \E m \in 1..Len(html) :
       m > n /\ m \notin failed_nodes /\ macros_processed >= 1
  /\ handlers_failed >= 1
  /\ handlers_processed >= 1

\* C3: a conversion call never raises to its caller; a failure of parsing
\* or of a stage yields the direct conversion of the input instead.
C3_CallNeverRaises ==
  CallOver => /\ ppc = "returned"
              /\ presult.kind \in {"return", "fallback"}

\* C4: after the macro pass no macro node whose handler raised is still in
\* the tree in its original form.
C4_FailedMacroIsReplaced ==
  MacroPassOver => \A n \in failed_nodes : soup[n] # "macro"

\* C5: every macro handler invocation is of the registry entry for the
\* node's macro name when there is one, and of the fallback handler
\* otherwise.
C5_DispatchByName ==
  \A i \in 1..Len(invoked) :
    invoked[i].stage = "macro" =>
      /\ invoked[i].name = MacroNameOf(html[invoked[i].node])
      /\ IF invoked[i].name \in DOMAIN macro_handlers
         THEN invoked[i].handler = macro_handlers[invoked[i].name]
         ELSE /\ generic_macro_handler # None
              /\ invoked[i].handler = generic_macro_handler

\* C5 witness: one pass dispatched a registered name to its handler and an
\* unregistered name to the fallback, both being available.
C5_Witness ==
  /\ MacroPassOver
  /\ generic_macro_handler # None
  /\ \E i, j \in 1..Len(invoked) :
       /\ invoked[i].stage = "macro" /\ invoked[j].stage = "macro"
       /\ invoked[i].name \in DOMAIN macro_handlers
       /\ invoked[i].handler \in HandlerIds
       /\ invoked[j].name \notin DOMAIN macro_handlers
       /\ invoked[j].handler = GenericHandler

MacroInvocations == { i \in 1..Len(invoked) : invoked[i].stage = "macro" }

\* C23: no macro handler is invoked on a macro node that a replacement of
\* an enclosing macro has detached from the tree. The enclosing macros of a
\* node come before it in document order, so they have had their iteration
\* when the node has its own.
C23_NoHandlerOnDetachedMacro ==
  \A i \in MacroInvocations :
    \A a \in Ancestors(html, invoked[i].node) : soup[a] # "replaced"

MaxRuns == 2

\* len(space_key) > 255
MaxSpaceKeyLen == 255
\* max_retries: int = 3
DefaultMaxRetries == 3

UpperChars == {"A"}
DigitChars == {"7"}
Chars == UpperChars \cup DigitChars \cup {"a", " ", "NL", "'"}
RunLengths == {1, MaxSpaceKeyLen}

Runs == [ch : Chars, n : RunLengths]
RunSeqs == UNION { [1..k -> Runs] : k \in 0..MaxRuns }

\* The characters of a string given by its runs.
RECURSIVE Expand(_)
Expand(runs) ==
  IF runs = <<>> THEN <<>>
  ELSE [i \in 1..runs[1].n |-> runs[1].ch] \o Expand(Tail(runs))

Str(runs) == [type |-> "str", truthy |-> runs # <<>>, runs |-> runs]
\* None, 0, [], {} and 123, 12.34, True.
NonStrings ==
  { [type |-> t, truthy |-> FALSE, runs |-> <<>>] : t \in {"NoneType", "int", "list"} }
  \cup { [type |-> t, truthy |-> TRUE, runs |-> <<>>] : t \in {"int", "bool"} }
Values == { Str(r) : r \in RunSeqs } \cup NonStrings

\* The space keys handed to cql_search and get_space_pages_ids.
ApiSpaceKeys ==
  { Str(<<>>),
    Str(<<[ch |-> "A", n |-> 1]>>),
    Str(<<[ch |-> "A", n |-> 1], [ch |-> "7", n |-> 1]>>),
    Str(<<[ch |-> "a", n |-> 1]>>),
    Str(<<[ch |-> "A", n |-> 1], [ch |-> "'", n |-> 1]>>),
    Str(<<[ch |-> "A", n |-> 1], [ch |-> " ", n |-> 1]>>) }

\* re.match(r"^[A-Z][A-Z0-9]*$", s): "$" matches at the end of the string
\* and also just before a newline that ends the string.
RegexMatches(s) ==
  /\ Len(s) >= 1
  /\ s[1] \in UpperChars
  /\ \E e \in {Len(s), Len(s) - 1} :
       /\ e >= 1
       /\ \A i \in 2..e : s[i] \in UpperChars \cup DigitChars
       /\ e = Len(s) \/ s[Len(s)] = "NL"

Raise(exc, msg) == [kind |-> "raise", exc |-> exc, value |-> msg]
Return(v) == [kind |-> "return", exc |-> None, value |-> v]

\* validate_space_key (confluence_validator.py lines 31-48).
ValidateSpaceKey(v) ==
  IF ~v.truthy THEN Raise("ValueError", "Space key cannot be empty")
  ELSE IF v.type # "str" THEN Raise("ValueError", "Space key must be a string")
  ELSE IF ~RegexMatches(Expand(v.runs))
       THEN Raise("ValueError", "Invalid space key format")
  ELSE IF Len(Expand(v.runs)) > MaxSpaceKeyLen
       THEN Raise("ValueError", "Space key too long")
  ELSE Return(TRUE)

\* Bound of the error messages explored: the marker words in str(error).
MaxWords == 2
\* Bound of the max_retries arguments explored.
MaxRetries == 3

\* The words _handle_api_error looks for in str(error), and spellings of
\* them in another case.
ErrorWords == {"401", "Unauthorized", "unauthorized",
               "429", "rate limit", "Rate Limit",
               "404", "Not Found", "not found"}
ErrorMessages == { m \in SUBSET ErrorWords : Cardinality(m) <= MaxWords }

\* str.lower() on a marker word.
Lower(w) ==
  CASE w = "Unauthorized" -> "unauthorized"
    [] w = "Rate Limit" -> "rate limit"
    [] w = "Not Found" -> "not found"
    [] OTHER -> w

\* The mutant of HandleApiError: the rate-limit test comes first.
HandleApiErrorRateLimitFirst(msg) ==
  IF "429" \in msg \/ "rate limit" \in { Lower(w) : w \in msg }
  THEN "ConfluenceRateLimitError"
  ELSE IF "401" \in msg \/ "Unauthorized" \in msg THEN "ConfluenceAuthError"
  ELSE IF "404" \in msg \/ "Not Found" \in msg THEN "ConfluenceNotFoundError"
  ELSE "OriginalError"

\* _handle_api_error (lines 254-277): the exception it raises.
HandleApiError(msg) ==
  IF "401" \in msg \/ "Unauthorized" \in msg THEN "ConfluenceAuthError"
  ELSE IF "429" \in msg \/ "rate limit" \in { Lower(w) : w \in msg }
       THEN "ConfluenceRateLimitError"
  ELSE IF "404" \in msg \/ "Not Found" \in msg THEN "ConfluenceNotFoundError"
  ELSE "OriginalError"

\* The errors a func handed to _retry_with_backoff raises.
FuncErrors == {"ConfluenceRateLimitError", "ConfluenceAuthError",
               "ConfluenceNotFoundError", "OriginalError"}

\* The mutant of IsRetried: a not-found error is retried as well.
IsRetriedNotFoundToo(exc) ==
  exc \in {"ConfluenceRateLimitError", "ConfluenceNotFoundError"}

\* except ConfluenceRateLimitError (line 221): the errors the loop handles.
IsRetried(exc) == exc = "ConfluenceRateLimitError"

\* The mutant of RetriesLeft: one retry more than max_retries.
RetriesLeftOneMore(att, max_retries) == att <= max_retries

\* The negation of "if attempt >= max_retries: raise" (line 222).
RetriesLeft(att, max_retries) == att < max_retries

RECURSIVE Pow2(_)
Pow2(n) == IF n = 0 THEN 1 ELSE 2 * Pow2(n - 1)

\* The mutant of Delay: the delay grows linearly.
DelayLinear(att) == att + 1

\* delay = 2**attempt (line 230).
Delay(att) == Pow2(att)

\* validate_space_key(v), called on its own.
CallValidateSpaceKey ==
  /\ cpc = "idle"
  /\ \E v \in Values :
       /\ cop' = [op |-> "validate_space_key", arg |-> v, max_retries |-> 0]
       /\ cresult' = ValidateSpaceKey(v)
  /\ cpc' = "done"
  /\ UNCHANGED <<attempt, api_calls, sleeps, last_error>>
  /\ UNCHANGED <<procVars, umVars, rendVars, tblVars, fnVars>>

\* cql_search(cql) with cql = "space = <key> AND ...", lines 114-127: the
\* query goes to _retry_with_backoff(_search) as it is.
CallCqlSearch ==
  /\ cpc = "idle"
  /\ \E k \in ApiSpaceKeys : cop' = [op |-> "cql", arg |-> k,
                                  max_retries |-> DefaultMaxRetries]
  /\ cpc' = "retry"
  /\ attempt' = 0
  /\ UNCHANGED <<api_calls, sleeps, last_error, cresult>>
  /\ UNCHANGED <<procVars, umVars, rendVars, tblVars, fnVars>>

\* get_space_pages_ids(space_key), lines 184-199.
CallGetSpacePagesIds ==
  /\ cpc = "idle"
  /\ \E k \in ApiSpaceKeys : cop' = [op |-> "get_all_pages_from_space", arg |-> k,
                                  max_retries |-> DefaultMaxRetries]
  /\ cpc' = "retry"
  /\ attempt' = 0
  /\ UNCHANGED <<api_calls, sleeps, last_error, cresult>>
  /\ UNCHANGED <<procVars, umVars, rendVars, tblVars, fnVars>>

\* get_page_by_id(page_id), lines 150-161.
CallGetPageById ==
  /\ cpc = "idle"
  /\ cop' = [op |-> "get_page_by_id", arg |-> Str(<<[ch |-> "7", n |-> 1]>>),
             max_retries |-> DefaultMaxRetries]
  /\ cpc' = "retry"
  /\ attempt' = 0
  /\ UNCHANGED <<api_calls, sleeps, last_error, cresult>>
  /\ UNCHANGED <<procVars, umVars, rendVars, tblVars, fnVars>>

\* _retry_with_backoff(func, max_retries) called with a func of the
\* caller's.
CallRetryWithBackoff ==
  /\ cpc = "idle"
  /\ \E m \in (0 - 1)..MaxRetries :
       cop' = [op |-> "func", arg |-> None, max_retries |-> m]
  /\ cpc' = "retry"
  /\ attempt' = 0
  /\ UNCHANGED <<api_calls, sleeps, last_error, cresult>>
  /\ UNCHANGED <<procVars, umVars, rendVars, tblVars, fnVars>>

\* What one invocation of func gives: a result, or an error. The funcs of
\* the client call the SDK in a thread and map its error by
\* _handle_api_error (lines 116-125, 152-159, 186-197).
FuncOutcomes(op) ==
  {Return("result")}
  \cup IF op = "func"
       THEN { Raise(exc, {}) : exc \in FuncErrors }
       ELSE { Raise(HandleApiError(msg), msg) : msg \in ErrorMessages }

\* One iteration of the loop of _retry_with_backoff (lines 218-235): the
\* result of func() is returned; a rate-limit error is raised when no retry
\* is left and followed by a sleep otherwise; any other error propagates.
RetryAttempt ==
  /\ cpc = "retry"
  /\ attempt <= cop.max_retries
  /\ api_calls' = Append(api_calls, [method |-> cop.op, arg |-> cop.arg])
  /\ \E out \in FuncOutcomes(cop.op) :
       IF out.kind = "return"
       THEN /\ cresult' = out
            /\ cpc' = "done"
            /\ UNCHANGED <<attempt, sleeps, last_error>>
       ELSE /\ last_error' = out
            /\ IF IsRetried(out.exc) /\ RetriesLeft(attempt, cop.max_retries)
               THEN /\ sleeps' = Append(sleeps, Delay(attempt))
                    /\ attempt' = attempt + 1
                    /\ UNCHANGED <<cpc, cresult>>
               ELSE /\ cresult' = out
                    /\ cpc' = "done"
                    /\ UNCHANGED <<attempt, sleeps>>
  /\ UNCHANGED cop
  /\ UNCHANGED <<procVars, umVars, rendVars, tblVars, fnVars>>

\* Line 238: the loop ended without a return or a raise.
RetryLoopExhausted ==
  /\ cpc = "retry"
  /\ attempt > cop.max_retries
  /\ cresult' = Raise("RuntimeError", {})
  /\ cpc' = "done"
  /\ UNCHANGED <<cop, attempt, api_calls, sleeps, last_error>>
  /\ UNCHANGED <<procVars, umVars, rendVars, tblVars, fnVars>>

NextClient ==
  \/ CallValidateSpaceKey
  \/ CallCqlSearch
  \/ CallGetSpacePagesIds
  \/ CallGetPageById
  \/ CallRetryWithBackoff
  \/ RetryAttempt
  \/ RetryLoopExhausted

\* The processor before any call, for the specifications of other programs.
IdleProcessor ==
  /\ macro_handlers = <<>>
  /\ generic_macro_handler = None
  /\ element_handlers = <<>>
  /\ html = <<>>
  /\ soup = <<>>
  /\ ppc = "idle"
  /\ macro_idx = 0
  /\ elem_idx = 0
  /\ macros_processed = 0
  /\ macros_failed = 0
  /\ handlers_processed = 0
  /\ handlers_failed = 0
  /\ invoked = <<>>
  /\ failed_nodes = {}
  /\ presult = None

InitClient ==
  /\ cpc = "idle"
  /\ cop = None
  /\ attempt = 0
  /\ api_calls = <<>>
  /\ sleeps = <<>>
  /\ last_error = None
  /\ cresult = None
  /\ IdleProcessor
  /\ IdleUnknownMacro
  /\ NewRenderer
  /\ IdleTable
  /\ IdleFunctions

SpecClient == InitClient /\ [][NextClient]_vars

(***************************************************************************)
(* Claims about validate_space_key and ConfluenceClient                    *)
(***************************************************************************)

\* A valid space key as the documentation states it: a string of 1 to 255
\* characters, all uppercase letters or digits, the first a letter.
IsValidSpaceKey(v) ==
  /\ v.type = "str"
  /\ LET s == Expand(v.runs)
     IN /\ Len(s) >= 1
        /\ Len(s) <= MaxSpaceKeyLen
        /\ s[1] \in UpperChars
        /\ \A i \in 1..Len(s) : s[i] \in UpperChars \cup DigitChars

\* C9: the underlying cql / get_all_pages_from_space method is never
\* invoked with an invalid space key; such a call raises ValueError first.
C9_NoApiCallForInvalidSpaceKey ==
  \A i \in 1..Len(api_calls) :
    api_calls[i].method \in {"cql", "get_all_pages_from_space"} =>
      IsValidSpaceKey(api_calls[i].arg)

\* C10: validate_space_key(k) returns True exactly when k is a valid space
\* key and raises ValueError for every other input.
C10_ValidateSpaceKeyExact ==
  (cpc = "done" /\ cop.op = "validate_space_key") =>
    IF IsValidSpaceKey(cop.arg)
    THEN cresult = Return(TRUE)
    ELSE cresult.kind = "raise" /\ cresult.exc = "ValueError"

\* A call of _retry_with_backoff is in progress or over.
InRetry == cpc \in {"retry", "done"} /\ cop.op # "validate_space_key"
RetryRaised == cpc = "done" /\ cresult.kind = "raise"

\* C11: with max_retries >= 0, func is invoked at most max_retries + 1
\* times and the loop never runs out of iterations; a result after k
\* rate-limit errors comes from invocation k + 1; when every invocation is
\* rate-limited the last error is raised after max_retries + 1 invocations,
\* and RuntimeError is never raised.
C11_RetryIsBounded ==
  (InRetry /\ cop.max_retries >= 0) =>
    /\ Len(api_calls) <= cop.max_retries + 1
    /\ cpc = "retry" => attempt <= cop.max_retries /\ Len(api_calls) = attempt
    /\ (cpc = "done" /\ cresult.kind = "return") => Len(api_calls) = attempt + 1
    /\ RetryRaised =>
         /\ cresult.exc # "RuntimeError"
         /\ cresult.exc = "ConfluenceRateLimitError" =>
              /\ Len(api_calls) = cop.max_retries + 1
              /\ cresult = last_error

\* C11 witness: every one of at least three invocations of a func was
\* rate-limited and the error reached the caller.
C11_Witness ==
  /\ cpc = "done"
  /\ cop.op = "func"
  /\ cop.max_retries >= 2
  /\ cresult.kind = "raise"
  /\ cresult.exc = "ConfluenceRateLimitError"
  /\ Len(api_calls) = cop.max_retries + 1

\* C12: the loop goes on only after a rate-limit error; any other error of
\* func is the outcome of the call, raised from the invocation that failed
\* with no sleep after it.
C12_OnlyRateLimitIsRetried ==
  InRetry =>
    /\ (cpc = "retry" /\ attempt > 0) =>
         last_error.exc = "ConfluenceRateLimitError"
    /\ (RetryRaised /\ cresult.exc \in FuncErrors \ {"ConfluenceRateLimitError"}) =>
         /\ cresult = last_error
         /\ Len(api_calls) = attempt + 1
         /\ Len(sleeps) = attempt

\* C12 witness: an authentication error on a later attempt of a func
\* reached the caller.
C12_Witness ==
  /\ cpc = "done"
  /\ cop.op = "func"
  /\ attempt >= 1
  /\ cresult.kind = "raise"
  /\ cresult.exc = "ConfluenceAuthError"

\* C13: the delays of one call are 1, 2, 4, ... in that order, one after
\* every failed attempt that is retried and none after the last attempt;
\* max_retries sleeps when every attempt was rate-limited.
C13_ExponentialBackoff ==
  (InRetry /\ cop.max_retries >= 0) =>
    /\ \A i \in 1..Len(sleeps) :
         sleeps[i] = IF i = 1 THEN 1 ELSE 2 * sleeps[i - 1]
    /\ cpc = "retry" => Len(sleeps) = Len(api_calls)
    /\ cpc = "done" => Len(sleeps) = Len(api_calls) - 1
    /\ (RetryRaised /\ cresult.exc = "ConfluenceRateLimitError") =>
         Len(sleeps) = cop.max_retries

\* C13 witness: a call slept 1, 2 and 4 seconds and then ended.
C13_Witness ==
  /\ cpc = "done"
  /\ Len(sleeps) >= 3
  /\ sleeps[1] = 1 /\ sleeps[2] = 2 /\ sleeps[3] = 4

\* The class of an error message as the documentation states it.
ClassOf(msg) ==
  IF "401" \in msg \/ "Unauthorized" \in msg THEN "ConfluenceAuthError"
  ELSE IF \/ "429" \in msg
          \/ msg \cap {"rate limit", "Rate Limit"} # {}
       THEN "ConfluenceRateLimitError"
  ELSE IF "404" \in msg \/ "Not Found" \in msg THEN "ConfluenceNotFoundError"
  ELSE "OriginalError"

\* C14: a failure of the SDK in cql_search, get_page_by_id or
\* get_space_pages_ids always becomes a raised error of the class of its
\* message, and the call goes on to another attempt exactly when that
\* class is the rate limit and a retry is left.
C14_ApiErrorsAreClassified ==
  (InRetry /\ cop.op # "func") =>
    /\ (attempt > 0 \/ RetryRaised) =>
         /\ last_error.kind = "raise"
         /\ last_error.exc = ClassOf(last_error.value)
    /\ (cpc = "retry" /\ attempt > 0) =>
         ClassOf(last_error.value) = "ConfluenceRateLimitError"
    /\ RetryRaised =>
         /\ cresult = last_error
         /\ ClassOf(cresult.value) = "ConfluenceRateLimitError" =>
              attempt = cop.max_retries

\* C14 witness: a CQL search was rate-limited by a message in another case,
\* retried, and then failed with a not-found error although the message
\* also had a lower-case "unauthorized".
C14_Witness ==
  /\ cpc = "done"
  /\ cop.op = "cql"
  /\ attempt >= 1
  /\ cresult.kind = "raise"
  /\ cresult.exc = "ConfluenceNotFoundError"
  /\ cresult.value = {"Not Found", "unauthorized"}

(***************************************************************************)
(* MacroParser.parse_unknown_macro (docs/bmad/examples)                    *)
(***************************************************************************)

\* Bound of the ac:parameter children of a macro tag.
MaxParams == 2

UnknownMacroNames == {"chart", "roadmap"}
ParamNames == {"", "title"}
ParamValues == {"v1", "v2"}
ParamTags == [name : ParamNames, value : ParamValues]

\* A macro tag: its ac:name (or NoName), its ac:parameter children, whether
\* reading them raises, and its ac:rich-text-body: absent, convertible, or
\* one on which markdownify raises.
MacroTags ==
  [name : UnknownMacroNames \cup {NoName},
   params : UNION { [1..k -> ParamTags] : k \in 0..MaxParams },
   params_raise : BOOLEAN,
   body : {"none", "rich", "raises"}]

\* A text is a sequence of pieces; a piece is a literal or a value put in.
Contains(text, piece) == \E i \in 1..Len(text) : text[i] = piece

\* MacroIdentifier.extract_macro_parameters (lines 43-57): the dictionary of
\* the named parameters, as (name, value) pairs in insertion order; what was
\* read so far (nothing) when reading raises.
RECURSIVE ExtractFrom(_, _)
ExtractFrom(params, acc) ==
  IF params = <<>> THEN acc
  ELSE LET p == Head(params)
           at == { i \in 1..Len(acc) : acc[i].name = p.name }
       IN ExtractFrom(Tail(params),
            IF p.name = "" THEN acc
            ELSE IF at = {} THEN Append(acc, p)
            ELSE [acc EXCEPT ![CHOOSE i \in at : TRUE] = p])

ExtractMacroParameters(tag) ==
  IF tag.params_raise THEN <<>> ELSE ExtractFrom(tag.params, <<>>)

\* ", ".join([f"{k}='{v}'" for k, v in params.items()])
RECURSIVE JoinParams(_)
JoinParams(params) ==
  IF params = <<>> THEN <<>>
  ELSE <<Head(params).name, "='", Head(params).value, "'">>
       \o (IF Len(params) > 1 THEN <<", ">> ELSE <<>>)
       \o JoinParams(Tail(params))

\* parse_unknown_macro (lines 237-255).
ParseUnknownMacro(tag) ==
  LET macro_name == IF tag.name = NoName THEN "Unknown" ELSE tag.name
      comment == <<"<!-- Unsupported Confluence Macro: ", macro_name, " ">>
                 \o JoinParams(ExtractMacroParameters(tag))
                 \o <<" -->\n\n">>
  IN CASE tag.body = "rich" ->
            comment \o <<"**", macro_name, " Macro Content:**\n\n",
                         "content_md", "\n\n">>
       [] tag.body = "none" ->
            comment \o <<"**", macro_name,
                         " Macro** _(Content could not be extracted)_\n\n">>
       [] tag.body = "raises" ->
            <<"<!-- Unsupported Confluence Macro -->\n\n**", "Unknown",
              " Macro** _(Content could not be extracted)_\n\n">>

InitUnknownMacro ==
  /\ macro \in MacroTags
  /\ replacement_obj = None
  /\ IdleProcessor
  /\ IdleClient
  /\ NewRenderer
  /\ IdleTable
  /\ IdleFunctions

\* render_content, lines 664-665: a macro of no known name goes to
\* parse_unknown_macro.
DispatchUnknownMacro ==
  /\ replacement_obj = None
  /\ replacement_obj' = ParseUnknownMacro(macro)
  /\ UNCHANGED <<macro, procVars, cliVars, rendVars, tblVars, fnVars>>

NextUnknownMacro == DispatchUnknownMacro

SpecUnknownMacro == InitUnknownMacro /\ [][NextUnknownMacro]_vars

\* C6: dispatching a macro of an unregistered name yields a non-empty
\* placeholder that contains the macro's name, also when reading its
\* parameters or its body fails.
C6_FallbackNamesTheMacro ==
  replacement_obj # None =>
    /\ replacement_obj # <<>>
    /\ macro.name # NoName => Contains(replacement_obj, macro.name)


(***************************************************************************)
(* EnhancedContentRenderer.render_content and ContentExtractor             *)
(* (docs/bmad/examples)                                                    *)
(***************************************************************************)

\* Bound of the documents explored: the elements of a page body.
MaxItems == 2

\* The elements of a document that render_content treats differently:
\*   macro        a macro that records nothing (code, panel, status, ...)
\*   jira_key     a jira macro with a key parameter
\*   jira_jql     a jira macro with a jqlQuery parameter
\*   view_file    a view-file macro with an attachment
\*   iframe       an iframe macro with a source URL
\*   iframe_jira  an iframe macro whose source is the browse URL of the
\*                jira_key issue
\*   anchor       <a href="https://..."> to another site
\*   anchor_jira  <a href=...> to the browse URL of the jira_key issue
\*   anchor_local <a href="#..."> within the page
\*   image        ac:image with an attachment
\*   user         ac:link with ri:user
\*   page         ac:link with ri:page
\*   table        <table>
\*   text         anything else, and what a processed element is replaced by
MacroKinds == {"macro", "jira_key", "jira_jql", "view_file", "iframe",
               "iframe_jira"}
AnchorKinds == {"anchor", "anchor_jira", "anchor_local"}
Kinds == MacroKinds \cup AnchorKinds \cup {"image", "user", "page", "table", "text"}
\* The kinds that make up the pages handed to extract_content.
PageKinds == {"jira_jql", "anchor", "image", "user", "page"}

DocsOver(kinds) == UNION { [1..n -> kinds] : n \in 0..MaxItems }
Docs == DocsOver(Kinds)
PageBodies == DocsOver(PageKinds)

\* issue_url = f"{jira_client.url}/browse/{issue_key}" (lines 281, 331).
IssueUrl(issue_key) == IF issue_key = "K1" THEN "https://jira/browse/K1"
                       ELSE "https://jira/browse/K2"

\* link.get('href', '') of an anchor.
Href(kind) ==
  CASE kind = "anchor" -> "https://site"
    [] kind = "anchor_jira" -> IssueUrl("K1")
    [] kind = "anchor_local" -> "#top"

\* href.startswith('http://') or href.startswith('https://') (line 837).
IsExternalUrl(href) == href \in {"https://site", IssueUrl("K1"), IssueUrl("K2")}

\* An entry of an accumulator: what was recorded and the caller whose code
\* recorded it ("earlier": in a call of that caller that is over).
Entry(v, by) == [v |-> v, by |-> by]

Range(seq) == { seq[n] : n \in 1..Len(seq) }

HasKind(sp, kinds) == \E n \in 1..Len(sp) : sp[n] \in kinds

\* The first macro tag at or after position i of the list
\* soup.find_all('ac:structured-macro') (line 633), 0 when there is none.
NextMacro(sp, i) ==
  LET at == { n \in i..Len(sp) : sp[n] \in MacroKinds }
  IN IF at = {} THEN 0 ELSE CHOOSE n \in at : \A m \in at : n <= m

\* The mutant of StageAfter: tables are transformed after the conversion to
\* Markdown.
StageAfterTablesLast(stage) ==
  CASE stage = "macros" -> "elements"
    [] stage = "elements" -> "markdown"
    [] stage = "markdown" -> "tables"
    [] stage = "tables" -> "return"

\* The order of the stages of render_content: the macro loop (lines
\* 633-695), the element processing (697-736), the tables (738-767), then
\* markdownify (769-793).
StageAfter(stage) ==
  CASE stage = "macros" -> "elements"
    [] stage = "elements" -> "tables"
    [] stage = "tables" -> "markdown"
    [] stage = "markdown" -> "return"

\* Where the macro loop stands with position i next.
AfterMacroLoop(sp, i) ==
  IF NextMacro(sp, i) # 0 THEN "macros" ELSE StageAfter("macros")

\* self.<f>: the list the attribute names now.
SelfList(f) == lists[fields[f]]

\* _is_jira_url_already_processed (lines 819-822).
IsJiraUrlAlreadyProcessed(url) ==
  \E e \in Range(SelfList("jira_issue_links")) : e.v = url

\* The entries the loop of _process_external_links_soup appends (lines
\* 832-850).
RECURSIVE ExternalEntries(_, _)
ExternalEntries(sp, by) ==
  IF sp = <<>> THEN <<>>
  ELSE (IF /\ Head(sp) \in AnchorKinds
           /\ IsExternalUrl(Href(Head(sp)))
           /\ ~IsJiraUrlAlreadyProcessed(Href(Head(sp)))
        THEN <<Entry(Href(Head(sp)), by)>>
        ELSE <<>>)
       \o ExternalEntries(Tail(sp), by)

\* The filenames _process_image_and_video_soup appends (lines 983-992).
RECURSIVE ImageEntries(_, _)
ImageEntries(sp, by) ==
  IF sp = <<>> THEN <<>>
  ELSE (IF Head(sp) = "image" THEN <<Entry("image.png", by)>> ELSE <<>>)
       \o ImageEntries(Tail(sp), by)

\* What a macro parser records for a macro tag (lines 284, 398, 449).
MacroValue(kind) ==
  CASE kind = "jira_key" -> IssueUrl("K1")
    [] kind = "view_file" -> "file.pdf"
    [] kind = "iframe" -> "https://embed"
    [] kind = "iframe_jira" -> IssueUrl("K1")

\* The accumulators as a reader of the renderer sees them:
\* get_discovered_assets (lines 799-807) and the attributes
\* (content_extractor_sample.py lines 100-103).
Observe ==
  [external_links |-> SelfList("external_links"),
   user_mentions |-> SelfList("user_mentions"),
   internal_links |-> SelfList("internal_links"),
   jira_issue_links |-> SelfList("jira_issue_links"),
   discovered_assets |-> Range(SelfList("asset_links")),
   user_info_cache |-> user_info_cache]

\* sp with the elements of the given kinds replaced by text
\* (replace_with(NavigableString(...))).
Replaced(sp, kinds) ==
  [n \in 1..Len(sp) |-> IF sp[n] \in kinds THEN "text" ELSE sp[n]]

\* render_content from its call to the macro loop (lines 612-633). Empty
\* content returns at line 613, before the accumulators are touched.
StartRender(t, html_content, via, jc, cc) ==
  /\ running = None
  /\ task[t].pc = "idle"
  /\ IF html_content = <<>>
     THEN /\ task' = [task EXCEPT ![t] =
                        [IdleTask EXCEPT !.pc = "return", !.via = via,
                                         !.result = "empty"]]
          /\ UNCHANGED <<lists, fields, macro_parser>>
     ELSE /\ lists' = [id \in ListIds |-> IF id[1] = t THEN <<>> ELSE lists[id]]
          /\ fields' = [f \in FieldNames |-> <<t, f>>]
          /\ macro_parser' = [asset_links |-> <<t, "asset_links">>,
                              jira_issue_links |-> <<t, "jira_issue_links">>,
                              external_links |-> <<t, "external_links">>]
          /\ task' = [task EXCEPT ![t] =
                        [IdleTask EXCEPT !.pc = AfterMacroLoop(html_content, 1),
                                         !.soup = html_content,
                                         !.i = 1,
                                         !.via = via,
                                         !.jira_client = jc,
                                         !.confluence_client = cc]]
  /\ running' = t
  /\ UNCHANGED <<user_info_cache, observed>>
  /\ UNCHANGED <<procVars, cliVars, umVars, tblVars, fnVars>>

\* A caller calls render_content on the renderer.
CallRenderContent ==
  \E d \in Docs, jc \in BOOLEAN, cc \in BOOLEAN :
    /\ \A u \in Tasks : task[u].pc = "idle"
    /\ StartRender("t1", d, FALSE, jc, cc)

\* extract_content (lines 58-67): a task calls render_content on the
\* extractor's one renderer with the page title prepended to the body and
\* the extractor's clients.
CallExtractContent ==
  \E t \in Tasks, d \in PageBodies, jc \in BOOLEAN :
    /\ \A u \in Tasks : task[u].pc # "idle" => task[u].jira_client = jc
    /\ StartRender(t, <<"text">> \o d, TRUE, jc, TRUE)

\* One iteration of the macro loop (lines 635-695): the parser of
\* self.macro_parser for the tag's name runs and the tag is replaced. The
\* parsers record into the lists the macro parser was given. A JQL macro
\* with a Jira client suspends at await jira_client.execute_jql (line 306).
ProcessMacroTag ==
  \E t \in Tasks :
    /\ running = t
    /\ task[t].pc = "macros"
    /\ LET tk == task[t]
           n == NextMacro(tk.soup, tk.i)
           kind == tk.soup[n]
           awaits == kind = "jira_jql" /\ tk.jira_client
           records == \/ kind = "jira_key" /\ tk.jira_client
                      \/ kind \in {"view_file", "iframe", "iframe_jira"}
           target == CASE kind = "jira_key" -> "jira_issue_links"
                       [] kind = "view_file" -> "asset_links"
                       [] kind \in {"iframe", "iframe_jira"} -> "external_links"
                       [] OTHER -> None
       IN /\ lists' = IF records
                      THEN [lists EXCEPT ![macro_parser[target]] =
                              Append(@, Entry(MacroValue(kind), t))]
                      ELSE lists
          /\ task' = [task EXCEPT ![t] =
               [tk EXCEPT
                  !.pc = IF awaits THEN "jql_wait"
                         ELSE AfterMacroLoop(tk.soup, n + 1),
                  !.soup = IF awaits THEN @ ELSE [@ EXCEPT ![n] = "text"],
                  !.i = IF awaits THEN n ELSE n + 1,
                  !.parser = IF awaits THEN macro_parser ELSE @,
                  !.trace = @ \o (IF awaits THEN <<"macro">>
                                  ELSE <<"macro", "macro_end">>),
                  !.own = IF records
                          THEN [@ EXCEPT ![target] =
                                  Append(@, Entry(MacroValue(kind), t))]
                          ELSE @]]
          /\ running' = IF awaits THEN None ELSE t
    /\ UNCHANGED <<fields, macro_parser, user_info_cache, observed>>
    /\ UNCHANGED <<procVars, cliVars, umVars, tblVars, fnVars>>

\* parse_jira_macro resumes after execute_jql (lines 312-379): the issues
\* are recorded in the jira_issue_links of the parser that was called and the
\* macro becomes a table; a failure of the query becomes an error text.
JqlResume ==
  \E t \in Tasks, outcome \in {"issues", "raise"} :
    /\ running = None
    /\ task[t].pc = "jql_wait"
    /\ LET tk == task[t]
           n == tk.i
           e == Entry(IssueUrl("K2"), t)
       IN /\ lists' = IF outcome = "issues"
                      THEN [lists EXCEPT ![tk.parser.jira_issue_links] =
                              Append(@, e)]
                      ELSE lists
          /\ task' = [task EXCEPT ![t] =
               [tk EXCEPT
                  !.pc = AfterMacroLoop(tk.soup, n + 1),
                  !.soup = [@ EXCEPT ![n] = IF outcome = "issues"
                                            THEN "table" ELSE "text"],
                  !.i = n + 1,
                  !.parser = None,
                  !.trace = Append(@, "macro_end"),
                  !.own = IF outcome = "issues"
                          THEN [@ EXCEPT !["jira_issue_links"] = Append(@, e)]
                          ELSE @]]
    /\ running' = t
    /\ UNCHANGED <<fields, macro_parser, user_info_cache, observed>>
    /\ UNCHANGED <<procVars, cliVars, umVars, tblVars, fnVars>>

\* Lines 697-736 up to the first await: _process_external_links_soup when
\* there is an anchor (it rebinds self.external_links, line 830), the
\* emoticon, comment, time and panel rewrites, _process_image_and_video_soup
\* when there is an image, then with a Confluence client the user links
\* (suspends at line 1044) or the page links (suspends at line 1125).
ProcessElements ==
  \E t \in Tasks :
    /\ running = t
    /\ task[t].pc = "elements"
    /\ LET tk == task[t]
           sp == tk.soup
           anchors == HasKind(sp, AnchorKinds)
           ext == ExternalEntries(sp, t)
           imgs == ImageEntries(sp, t)
           users == tk.confluence_client /\ HasKind(sp, {"user"})
           pages == tk.confluence_client /\ HasKind(sp, {"page"})
           rebound == IF anchors THEN [lists EXCEPT ![<<t, "ext">>] = ext]
                      ELSE lists
       IN /\ fields' = IF anchors
                       THEN [fields EXCEPT !["external_links"] = <<t, "ext">>]
                       ELSE fields
          /\ lists' = [rebound EXCEPT ![fields["asset_links"]] = @ \o imgs]
          /\ task' = [task EXCEPT ![t] =
               [tk EXCEPT
                  !.pc = IF users THEN "users_wait"
                         ELSE IF pages THEN "pages_wait"
                         ELSE StageAfter("elements"),
                  !.soup = [n \in 1..Len(sp) |->
                              IF \/ sp[n] = "image"
                                 \/ /\ sp[n] \in AnchorKinds
                                    /\ IsExternalUrl(Href(sp[n]))
                                    /\ ~IsJiraUrlAlreadyProcessed(Href(sp[n]))
                              THEN "text" ELSE sp[n]],
                  !.trace = IF anchors \/ imgs # <<>> \/ users \/ pages
                            THEN Append(@, "element") ELSE @,
                  !.own = [@ EXCEPT !["external_links"] = @ \o ext,
                                    !["asset_links"] = @ \o imgs]]]
          /\ running' = IF users \/ pages THEN None ELSE t
    /\ UNCHANGED <<macro_parser, user_info_cache, observed>>
    /\ UNCHANGED <<procVars, cliVars, umVars, tblVars, fnVars>>

\* _extract_user_links resumes after get_users_by_account_ids (lines
\* 1046-1083): the cache is updated and the mention recorded, or the failure
\* is logged; then the page links, if any, suspend at line 1125.
UsersResume ==
  \E t \in Tasks, outcome \in {"found", "raise"} :
    /\ running = None
    /\ task[t].pc = "users_wait"
    /\ LET tk == task[t]
           e == Entry("u1", t)
           found == outcome = "found"
           pages == HasKind(tk.soup, {"page"})
       IN /\ user_info_cache' =
               IF found
               THEN { c \in user_info_cache : c.v # "u1" } \cup {e}
               ELSE user_info_cache
          /\ lists' = IF found
                      THEN [lists EXCEPT ![fields["user_mentions"]] = Append(@, e)]
                      ELSE lists
          /\ task' = [task EXCEPT ![t] =
               [tk EXCEPT
                  !.pc = IF pages THEN "pages_wait" ELSE StageAfter("elements"),
                  !.soup = IF found THEN Replaced(@, {"user"}) ELSE @,
                  !.trace = IF pages THEN Append(@, "element") ELSE @,
                  !.own = IF found
                          THEN [@ EXCEPT !["user_mentions"] = Append(@, e)]
                          ELSE @]]
          /\ running' = IF pages THEN None ELSE t
    /\ UNCHANGED <<fields, macro_parser, observed>>
    /\ UNCHANGED <<procVars, cliVars, umVars, tblVars, fnVars>>

\* _extract_page_links resumes after find_page_by_title (lines 1127-1163):
\* a page that is found is recorded and its links rewritten.
PagesResume ==
  \E t \in Tasks, outcome \in {"found", "none"} :
    /\ running = None
    /\ task[t].pc = "pages_wait"
    /\ LET tk == task[t]
           e == Entry("Page", t)
           found == outcome = "found"
       IN /\ lists' = IF found
                      THEN [lists EXCEPT ![fields["internal_links"]] = Append(@, e)]
                      ELSE lists
          /\ task' = [task EXCEPT ![t] =
               [tk EXCEPT
                  !.pc = StageAfter("elements"),
                  !.soup = IF found THEN Replaced(@, {"page"}) ELSE @,
                  !.own = IF found
                          THEN [@ EXCEPT !["internal_links"] = Append(@, e)]
                          ELSE @]]
    /\ running' = t
    /\ UNCHANGED <<fields, macro_parser, user_info_cache, observed>>
    /\ UNCHANGED <<procVars, cliVars, umVars, tblVars, fnVars>>

\* Lines 738-767: every table is converted and replaced by a placeholder.
TableStage ==
  \E t \in Tasks :
    /\ running = t
    /\ task[t].pc = "tables"
    /\ LET tk == task[t]
           tables == { n \in 1..Len(tk.soup) : tk.soup[n] = "table" }
       IN task' = [task EXCEPT ![t] =
            [tk EXCEPT
               !.pc = StageAfter("tables"),
               !.soup = Replaced(@, {"table"}),
               !.trace = @ \o [k \in 1..Cardinality(tables) |-> "table"]]]
    /\ UNCHANGED <<lists, fields, macro_parser, user_info_cache, running,
                   observed>>
    /\ UNCHANGED <<procVars, cliVars, umVars, tblVars, fnVars>>

\* Lines 769-797: markdownify of the tree; a failure goes to the except
\* clause, which returns the conversion of the markup as it is.
Markdownify ==
  \E t \in Tasks, outcome \in {"ok", "raise"} :
    /\ running = t
    /\ task[t].pc = "markdown"
    /\ task' = [task EXCEPT ![t] =
         [@ EXCEPT
            !.pc = IF outcome = "ok" THEN StageAfter("markdown") ELSE "return",
            !.trace = Append(@, "markdown"),
            !.result = IF outcome = "ok" THEN "markdown" ELSE "fallback"]]
    /\ UNCHANGED <<lists, fields, macro_parser, user_info_cache, running,
                   observed>>
    /\ UNCHANGED <<procVars, cliVars, umVars, tblVars, fnVars>>

\* render_content returns and its caller reads the accumulators. In
\* extract_content the assets are read at once (line 70) and, when there
\* are any, the task suspends at get_page_attachments (line 78) before it
\* reads the other lists.
ReturnMarkdown ==
  \E t \in Tasks :
    /\ running = t
    /\ task[t].pc = "return"
    /\ observed' = [observed EXCEPT ![t] = Observe]
    /\ task' = [task EXCEPT ![t].pc =
                  IF task[t].via /\ Observe.discovered_assets # {}
                  THEN "assets_wait" ELSE "done"]
    /\ running' = None
    /\ UNCHANGED <<lists, fields, macro_parser, user_info_cache>>
    /\ UNCHANGED <<procVars, cliVars, umVars, tblVars, fnVars>>

\* extract_content resumes after get_page_attachments and reads the other
\* lists of the renderer (lines 100-103).
AttachmentsResume ==
  \E t \in Tasks :
    /\ running = None
    /\ task[t].pc = "assets_wait"
    /\ observed' = [observed EXCEPT ![t] =
                      [Observe EXCEPT !.discovered_assets =
                                        observed[t].discovered_assets]]
    /\ task' = [task EXCEPT ![t].pc = "done"]
    /\ UNCHANGED <<lists, fields, macro_parser, user_info_cache, running>>
    /\ UNCHANGED <<procVars, cliVars, umVars, tblVars, fnVars>>

\* The caller is ready for its next call; what it recorded so far is from
\* an earlier call from now on.
NextCall ==
  \E t \in Tasks :
    /\ running = None
    /\ task[t].pc = "done"
    /\ task' = [task EXCEPT ![t] = IdleTask]
    /\ observed' = [observed EXCEPT ![t] = None]
    /\ lists' = [id \in ListIds |->
                   [n \in 1..Len(lists[id]) |->
                      IF lists[id][n].by = t
                      THEN Entry(lists[id][n].v, "earlier") ELSE lists[id][n]]]
    /\ user_info_cache' = { IF c.by = t THEN Entry(c.v, "earlier") ELSE c
                            : c \in user_info_cache }
    /\ UNCHANGED <<fields, macro_parser, running>>
    /\ UNCHANGED <<procVars, cliVars, umVars, tblVars, fnVars>>

InitRenderer ==
  /\ NewRenderer
  /\ IdleTable
  /\ IdleFunctions
  /\ IdleProcessor
  /\ IdleClient
  /\ IdleUnknownMacro

\* One call of render_content on a new renderer.
NextRenderContent ==
  \/ CallRenderContent
  \/ ProcessMacroTag
  \/ JqlResume
  \/ ProcessElements
  \/ UsersResume
  \/ PagesResume
  \/ TableStage
  \/ Markdownify
  \/ ReturnMarkdown

SpecRenderContent == InitRenderer /\ [][NextRenderContent]_vars

\* Calls of render_content on one renderer, one after the other.
NextRendererSeq ==
  \/ CallRenderContent
  \/ ProcessMacroTag
  \/ JqlResume
  \/ ProcessElements
  \/ UsersResume
  \/ PagesResume
  \/ TableStage
  \/ Markdownify
  \/ ReturnMarkdown
  \/ NextCall

SpecRendererSeq == InitRenderer /\ [][NextRendererSeq]_vars

\* Tasks that call extract_content of one ContentExtractor, each once.
NextRenderer ==
  \/ CallExtractContent
  \/ ProcessMacroTag
  \/ JqlResume
  \/ ProcessElements
  \/ UsersResume
  \/ PagesResume
  \/ TableStage
  \/ Markdownify
  \/ ReturnMarkdown
  \/ AttachmentsResume

SpecRenderer == InitRenderer /\ [][NextRenderer]_vars

(***************************************************************************)
(* Claims about the renderer                                               *)
(***************************************************************************)

\* C2: within one conversion every macro parser invocation has completed
\* before an element handler or a table transform starts, and every table
\* transform before the conversion of the document to Markdown starts.
C2_StagesRunInOrder ==
  \A t \in Tasks :
    \A i, j \in 1..Len(task[t].trace) :
      i < j =>
        /\ task[t].trace[j] \in {"macro", "macro_end"} =>
             task[t].trace[i] \in {"macro", "macro_end"}
        /\ task[t].trace[j] = "table" => task[t].trace[i] # "markdown"

\* C2 witness: a call that returned Markdown ran a macro parser, an element
\* handler, a table transform and the Markdown conversion.
C2_Witness ==
  /\ task["t1"].pc = "done"
  /\ task["t1"].result = "markdown"
  /\ {"macro_end", "element", "table", "markdown"} \subseteq Range(task["t1"].trace)

\* C7: what is observable when a call returns was recorded by that call:
\* no entry of the five accumulators or of the user-info cache is from an
\* earlier call on the renderer.
C7_NothingSurvivesIntoLaterCall ==
  task["t1"].pc = "done" =>
    /\ \A f \in FieldNames \ {"asset_links"} :
         \A e \in Range(observed["t1"][f]) : e.by = "t1"
    /\ \A e \in observed["t1"].discovered_assets : e.by = "t1"
    /\ \A e \in observed["t1"].user_info_cache : e.by = "t1"

\* C8: the metadata a task's extract_content reads is exactly what the
\* conversion of its own page recorded, whatever the other task did in
\* between.
C8_ConcurrentCallsAreIsolated ==
  \A t \in Tasks :
    task[t].pc = "done" =>
      /\ \A f \in FieldNames \ {"asset_links"} :
           observed[t][f] = task[t].own[f]
      /\ observed[t].discovered_assets = Range(task[t].own["asset_links"])

(***************************************************************************)
(* EnhancedContentRenderer.convert_confluence_table_to_markdown            *)
(*                                                                         *)
(* One conversion of one table.  A table is what BeautifulSoup gives the   *)
(* code: a sequence of rows, each a sequence of cells with a colspan, a    *)
(* rowspan and a text.  Rows and columns are counted from 1 here and from  *)
(* 0 in the code.  The first row is all <th> without colour attributes     *)
(* ("th"), all <th> with one ("th_styled"), or has a <td> ("td"): the code *)
(* reads tag names and attributes of the first row only.                   *)
(***************************************************************************)

MaxTableRows == 2
MaxTableCells == 3

\* int(cell.get('colspan', 1)), int(cell.get('rowspan', 1)) and whether
\* the cell's text is ''.  An empty cell is explored in its row-spanning
\* form.
CellShapes ==
  { s \in [colspan : {1, 2}, rowspan : {1, 2}, empty : BOOLEAN] :
      s.empty => (s.colspan = 1 /\ s.rowspan = 2) }

\* The tables of exactly r rows and at most n cells in all.
RECURSIVE TablesWith(_, _)
TablesWith(r, n) ==
  IF r = 0 THEN { <<>> }
  ELSE UNION { { <<row>> \o t : row \in [1..k -> CellShapes],
                                t \in TablesWith(r - 1, n - k) } :
               k \in 0..n }

\* soup.find('table') and table.find_all('tr') of the html_content argument,
\* and the current_section_level argument.
TableInputs ==
  { [table |-> FALSE, rows |-> <<>>, first_row |-> "td",
     current_section_level |-> 0] } \cup
  { [table |-> TRUE, rows |-> t, first_row |-> f,
     current_section_level |-> l] :
      t \in UNION { TablesWith(r, MaxTableCells) : r \in 0..MaxTableRows },
      f \in {"td", "th", "th_styled"},
      l \in {0, 1} }

\* The text of a cell.  Cells that have text have pairwise different texts.
EmptyText == [kind |-> "empty", r |-> 0, k |-> 0]

CellText(r, k, cell) ==
  IF cell.empty THEN EmptyText ELSE [kind |-> "cell", r |-> r, k |-> k]

\* A synthesized header: "Table Data Column i" or "Column i".
DefaultHeader(kind, i) == << [kind |-> kind, r |-> 0, k |-> i] >>

RECURSIVE ColspanSum(_)
ColspanSum(cells) ==
  IF cells = <<>> THEN 0 ELSE Head(cells).colspan + ColspanSum(Tail(cells))

Least(S) == CHOOSE x \in S : \A y \in S : x <= y

Greatest(S) == CHOOSE x \in S : \A y \in S : x >= y

\* range(pos, min(pos + span, limit)) of the two fill loops.
FillColumnsOriginOnly(col, colspan, num_cols) == {col}

FillColumns(col, colspan, num_cols) ==
  col..Least({col + colspan - 1, num_cols})

FillRows(r, rowspan, num_rows) ==
  r..Least({r + rowspan - 1, num_rows})

\* build_header_matrix, the fill loops: the cells of header row r from the
\* k-th on, then the rows after it.  A slot is None (set = FALSE), the text
\* of the cell put there, or "__SPAN__" and the text of the cell covering it.
RECURSIVE FillHeaderMatrix(_, _, _, _, _, _)
FillHeaderMatrix(matrix, header_rows, r, k, col_pos, max_cols) ==
  IF r > Len(header_rows) THEN matrix
  ELSE
    LET free == { c \in col_pos..max_cols : ~matrix[r][c].set }
        next_row == FillHeaderMatrix(matrix, header_rows, r + 1, 1, 1, max_cols)
    IN  IF k > Len(header_rows[r]) \/ free = {} THEN next_row
        ELSE
          LET pos == Least(free)
              cell == header_rows[r][k]
              filled ==
                [rr \in DOMAIN matrix |->
                  [c \in DOMAIN matrix[rr] |->
                    IF /\ rr \in FillRows(r, cell.rowspan, Len(header_rows))
                       /\ c \in FillColumns(pos, cell.colspan, max_cols)
                    THEN [set |-> TRUE,
                          span |-> ~(rr = r /\ c = pos),
                          text |-> CellText(r, k, cell)]
                    ELSE matrix[rr][c]]]
          IN  FillHeaderMatrix(filled, header_rows, r, k + 1,
                               pos + cell.colspan, max_cols)

\* build_header_matrix, the parts of the header of column col, from the
\* rows from the row-th on.
RECURSIVE HeaderParts(_, _, _, _)
HeaderParts(matrix, col, row, header_parts) ==
  IF row > Len(matrix) THEN header_parts
  ELSE
    LET v == matrix[row][col]
        parts ==
          IF v.set /\ ~v.span /\ v.text.kind # "empty"
            THEN Append(header_parts, v.text)
          ELSE IF v.set /\ v.span /\ v.text \notin Range(header_parts)
            THEN Append(header_parts, v.text)
          ELSE header_parts
    IN  HeaderParts(matrix, col, row + 1, parts)

BuildHeaderMatrix(header_rows) ==
  IF header_rows = <<>> THEN <<>>
  ELSE
    LET max_cols ==
          Greatest({0} \cup { ColspanSum(header_rows[r]) :
                                r \in 1..Len(header_rows) })
        matrix ==
          FillHeaderMatrix(
            [r \in 1..Len(header_rows) |->
              [c \in 1..max_cols |->
                [set |-> FALSE, span |-> FALSE, text |-> EmptyText]]],
            header_rows, 1, 1, 1, max_cols)
    IN  [col \in 1..max_cols |->
          LET header_parts == HeaderParts(matrix, col, 1, <<>>)
          IN  IF header_parts # <<>> THEN header_parts
              ELSE DefaultHeader("Column", col)]

\* The headers of a single header row: the text of each cell, once for
\* each column the cell spans.
RECURSIVE SingleRowHeaders(_, _)
SingleRowHeaders(cells, k) ==
  IF k > Len(cells) THEN <<>>
  ELSE [i \in 1..cells[k].colspan |-> << CellText(1, k, cells[k]) >>]
         \o SingleRowHeaders(cells, k + 1)

DetectHeaderAndStructure(rows, first_row) ==
  IF rows = <<>> \/ rows[1] = <<>>
    THEN [has_header_row |-> FALSE, headers |-> <<>>, num_columns |-> 0,
          header_rows_count |-> 0, colspan_count |-> 0, rowspan_count |-> 0]
  ELSE
    LET cells == rows[1]
        all_cells == { <<r, k>> \in (1..Len(rows)) \X (1..MaxTableCells + 1) :
                         k <= Len(rows[r]) }
        colspan_count ==
          Cardinality({ p \in all_cells : rows[p[1]][p[2]].colspan > 1 })
        rowspan_count ==
          Cardinality({ p \in all_cells : rows[p[1]][p[2]].rowspan > 1 })
        is_header_row == first_row = "th"
        max_rowspan == Greatest({ cells[k].rowspan : k \in 1..Len(cells) })
        header_rows_count ==
          IF max_rowspan > 1 /\ Len(rows) > 1 THEN max_rowspan ELSE 1
        actual_num_columns == ColspanSum(cells)
    IN  IF ~is_header_row
          THEN [has_header_row |-> FALSE,
                headers |-> [i \in 1..actual_num_columns |->
                               DefaultHeader("Table Data Column", i)],
                num_columns |-> actual_num_columns,
                header_rows_count |-> 0,
                colspan_count |-> colspan_count,
                rowspan_count |-> rowspan_count]
        ELSE [has_header_row |-> TRUE,
              headers |->
                IF header_rows_count > 1
                  THEN BuildHeaderMatrix(
                         SubSeq(rows, 1,
                                Least({header_rows_count, Len(rows)})))
                ELSE SingleRowHeaders(cells, 1),
              num_columns |-> actual_num_columns,
              header_rows_count |-> header_rows_count,
              colspan_count |-> colspan_count,
              rowspan_count |-> rowspan_count]

\* build_table_matrix, the cell loop of row r from its k-th cell on: the
\* matrix and the log of placements it leaves.
RECURSIVE PlaceCells(_, _, _, _, _, _, _)
PlaceCells(matrix, log, rows, r, k, current_col, num_cols) ==
  LET free == { c \in current_col..num_cols :
                  matrix[r].cells[c].content.kind = "empty" }
  IN  IF k > Len(rows[r]) \/ free = {} THEN [matrix |-> matrix, log |-> log]
      ELSE
        LET col == Least(free)
            cell == rows[r][k]
            content == CellText(r, k, cell)
            filled ==
              [rr \in DOMAIN matrix |->
                [matrix[rr] EXCEPT !.cells =
                  [c \in DOMAIN @ |->
                    IF /\ rr \in FillRows(r, cell.rowspan, Len(rows))
                       /\ c \in FillColumns(col, cell.colspan, num_cols)
                    THEN [content |-> content,
                          original |-> (rr = r /\ c = col),
                          colspan |-> IF rr = r THEN cell.colspan ELSE 1,
                          rowspan |-> IF c = col THEN cell.rowspan ELSE 1]
                    ELSE @[c]]]]
        IN  PlaceCells(filled,
                       log \cup {[r |-> r, c |-> col, colspan |-> cell.colspan,
                                  rowspan |-> cell.rowspan, content |-> content]},
                       rows, r, k + 1, col + cell.colspan, num_cols)

\* header.strip() is '' for a header made of no text.
IsBlankHeader(header) == \A i \in 1..Len(header) : header[i].kind = "empty"

\* The mutant of IsBlankContent: no content counts as blank.
IsBlankContentNever(content) == FALSE

\* cell_content.strip() is '' (line 1310).
IsBlankContent(content) == content.kind = "empty"

\* The loops of lines 1295-1313 from row r, column col on (col = 0: the
\* row's own heading): the headings appended to markdown_sections, each with
\* its level, its title and the content under it. row and col tell where in
\* the matrix an entry comes from.
RECURSIVE MarkdownSections(_, _, _, _, _)
MarkdownSections(matrix, st, level, r, col) ==
  IF r > Len(matrix) THEN <<>>
  ELSE IF r <= st.header_rows_count /\ st.has_header_row
    THEN MarkdownSections(matrix, st, level, r + 1, 0)
  ELSE IF col = 0
    THEN << [level |-> level + 1, title |-> <<matrix[r].row_id>>,
             content |-> EmptyText, row |-> r, col |-> 0] >>
         \o MarkdownSections(matrix, st, level, r, 1)
  ELSE IF col > Len(st.headers)
    THEN MarkdownSections(matrix, st, level, r + 1, 0)
  ELSE (IF /\ ~IsBlankHeader(st.headers[col])
           /\ col <= Len(matrix[r].cells)
           /\ ~IsBlankContent(matrix[r].cells[col].content)
        THEN << [level |-> level + 2, title |-> st.headers[col],
                 content |-> matrix[r].cells[col].content,
                 row |-> r, col |-> col] >>
        ELSE <<>>)
       \o MarkdownSections(matrix, st, level, r, col + 1)

\* The call, up to the two early returns of the unchanged input.
ConvertConfluenceTableToMarkdown ==
  /\ tpc = "start"
  /\ IF ~table_html.table \/ table_html.rows = <<>>
       THEN /\ tresult' = [kind |-> "html_content"]
            /\ tpc' = "done"
       ELSE /\ tpc' = "detect"
            /\ UNCHANGED tresult
  /\ UNCHANGED <<table_html, structure, table_matrix, row_idx, placed>>
  /\ UNCHANGED <<procVars, cliVars, umVars, rendVars, fnVars>>

\* detect_header_and_structure, the metadata lines, and the empty matrix
\* build_table_matrix starts from; a slot never written has no colspan
\* and no rowspan (0 here).
DetectStructure ==
  /\ tpc = "detect"
  /\ structure' = DetectHeaderAndStructure(table_html.rows, table_html.first_row)
  /\ table_matrix' =
       [r \in 1..Len(table_html.rows) |->
         [row_id |-> EmptyText,
          cells |-> [c \in 1..Len(structure'.headers) |->
                      [content |-> EmptyText, original |-> FALSE,
                       colspan |-> 0, rowspan |-> 0]]]]
  /\ row_idx' = 1
  /\ tpc' = "matrix"
  /\ UNCHANGED <<table_html, placed, tresult>>
  /\ UNCHANGED <<procVars, cliVars, umVars, rendVars, fnVars>>

\* One iteration of the row loop of build_table_matrix.
BuildTableMatrixRow ==
  /\ tpc = "matrix"
  /\ row_idx <= Len(table_html.rows)
  /\ LET rows == table_html.rows
         cells == rows[row_idx]
         skipped == \/ (row_idx <= structure.header_rows_count
                          /\ structure.has_header_row)
                    \/ cells = <<>>
         named == [table_matrix EXCEPT ![row_idx].row_id =
                     CellText(row_idx, 1, cells[1])]
         built == PlaceCells(named, placed, rows, row_idx, 1, 1,
                             Len(structure.headers))
     IN  IF skipped
           THEN UNCHANGED <<table_matrix, placed>>
           ELSE /\ table_matrix' = built.matrix
                /\ placed' = built.log
  /\ row_idx' = row_idx + 1
  /\ UNCHANGED <<table_html, tpc, structure, tresult>>
  /\ UNCHANGED <<procVars, cliVars, umVars, rendVars, fnVars>>

\* The sections generated from the matrix, between the metadata block and
\* the TABLE_END marker.
EmitMarkdown ==
  /\ tpc = "matrix"
  /\ row_idx > Len(table_html.rows)
  /\ tresult' =
       [kind |-> "markdown",
        summary |-> [num_columns |-> structure.num_columns,
                     num_rows |-> Len(table_html.rows),
                     has_header_row |-> structure.has_header_row],
        sections |-> MarkdownSections(table_matrix, structure,
                                      table_html.current_section_level, 1, 0)]
  /\ tpc' = "done"
  /\ UNCHANGED <<table_html, structure, table_matrix, row_idx, placed>>
  /\ UNCHANGED <<procVars, cliVars, umVars, rendVars, fnVars>>

InitTable ==
  /\ table_html \in TableInputs
  /\ tpc = "start"
  /\ structure = None
  /\ table_matrix = <<>>
  /\ row_idx = 0
  /\ placed = {}
  /\ tresult = None
  /\ IdleProcessor
  /\ IdleClient
  /\ IdleUnknownMacro
  /\ NewRenderer
  /\ IdleFunctions

NextTable ==
  \/ ConvertConfluenceTableToMarkdown
  \/ DetectStructure
  \/ BuildTableMatrixRow
  \/ EmitMarkdown

SpecTable == InitTable /\ [][NextTable]_vars

\* build_table_matrix has returned: every row has had its iteration.
MatrixBuilt ==
  /\ tpc \in {"matrix", "done"}
  /\ row_idx > Len(table_html.rows)

C16_RowspanCopiesAreIdentical ==
  MatrixBuilt =>
    \A p \in placed :
      \A r \in p.r..(p.r + p.rowspan - 1) :
        r <= Len(table_matrix) =>
          table_matrix[r].cells[p.c].content = p.content

\* detect_header_and_structure has returned.
StructureDetected ==
  \/ tpc = "matrix"
  \/ tpc = "done" /\ tresult.kind = "markdown"

\* C17: for a table whose first row has a cell, the header list that
\* detect_header_and_structure returns has as many entries as the column
\* count it returns.
C17_HeadersMatchColumnCount ==
  (StructureDetected /\ table_html.rows[1] # <<>>) =>
    Len(structure.headers) = structure.num_columns

\* The table has no row that is not a header row: its only row is all <th>
\* and without colour attributes.
OnlyHeaderRows ==
  /\ Len(table_html.rows) = 1
  /\ table_html.rows[1] # <<>>
  /\ table_html.first_row = "th"

\* C18: the conversion returns its input unchanged when the input has no
\* table, when the table has no rows, and when the table has header rows
\* only.
C18_NothingToConvertIsReturnedUnchanged ==
  (tpc = "done" /\ (\/ ~table_html.table
                    \/ table_html.rows = <<>>
                    \/ OnlyHeaderRows)) =>
    tresult.kind = "html_content"


\* C19: when a conversion is over, the URL of every iframe macro it
\* processed is among the external links the caller reads.
C19_IframeUrlsAreReturned ==
  task["t1"].pc = "done" =>
    \A e \in Range(task["t1"].own["external_links"]) :
      e.v \in {MacroValue("iframe"), MacroValue("iframe_jira")} =>
        \E o \in Range(observed["t1"].external_links) : o.v = e.v

\* C20: when a conversion is over, no external link the caller reads has
\* the URL of an issue link the caller reads.
C20_NoExternalLinkIsAnIssueLink ==
  task["t1"].pc = "done" =>
    \A e \in Range(observed["t1"].external_links) :
      \A j \in Range(observed["t1"].jira_issue_links) : e.v # j.v


\* The rows of the matrix that are not header rows.
DataRows ==
  { r \in 1..Len(table_matrix) :
      ~(r <= structure.header_rows_count /\ structure.has_header_row) }

\* The columns of data row r whose header and whose content are not empty.
FilledColumns(r) ==
  { c \in 1..Len(structure.headers) :
      /\ \E i \in 1..Len(structure.headers[c]) :
           structure.headers[c][i].kind # "empty"
      /\ table_matrix[r].cells[c].content.kind # "empty" }

\* C27: the output of a conversion at level L has, in row order, one
\* heading of level L+1 for every row that is not a header row, titled with
\* the text of the row's first cell, and after it, in column order, one
\* heading of level L+2 with the cell's content for every column whose
\* header and whose content in that row are not empty; it has nothing else.
C27_SectionsFollowTheMatrix ==
  (tpc = "done" /\ tresult.kind = "markdown") =>
    LET S == tresult.sections
        L == table_html.current_section_level
    IN  /\ \A i, j \in 1..Len(S) :
             i < j => \/ S[i].row < S[j].row
                      \/ S[i].row = S[j].row /\ S[i].col < S[j].col
        /\ { <<S[i].row, S[i].col>> : i \in 1..Len(S) } =
             { <<r, 0>> : r \in DataRows } \cup
             { rc \in DataRows \X (1..Len(structure.headers)) :
                 rc[2] \in FilledColumns(rc[1]) }
        /\ \A i \in 1..Len(S) :
             IF S[i].col = 0
             THEN /\ S[i].level = L + 1
                  /\ table_html.rows[S[i].row] # <<>> =>
                       S[i].title =
                         << CellText(S[i].row, 1, table_html.rows[S[i].row][1]) >>
             ELSE /\ S[i].level = L + 2
                  /\ S[i].title = structure.headers[S[i].col]
                  /\ S[i].content = table_matrix[S[i].row].cells[S[i].col].content

\* C27 witness: a conversion at level 1 of a table with a header row and a
\* data row of which one column has content and another is empty.
C27_Witness ==
  /\ tpc = "done"
  /\ tresult.kind = "markdown"
  /\ table_html.current_section_level = 1
  /\ structure.has_header_row
  /\ DataRows = {2}
  /\ FilledColumns(2) = {1}
  /\ Len(structure.headers) = 2
  /\ Len(tresult.sections) = 2

\* C28: once the matrix is built, every cell of every row that is not a
\* header row has been placed, and the column a cell starts at is not
\* covered by the span of a cell placed before it, in its row or in a row
\* above.
C28_EveryBodyCellIsPlaced ==
  MatrixBuilt =>
    /\ \A r \in DataRows :
         Cardinality({ p \in placed : p.r = r }) = Len(table_html.rows[r])
    /\ \A p, q \in placed :
         (q.r < p.r \/ (q.r = p.r /\ q.c < p.c)) =>
           ~(/\ p.r \in q.r..(q.r + q.rowspan - 1)
             /\ p.c \in q.c..(q.c + q.colspan - 1))


(***************************************************************************)
(* MacroParser._extract_original_url_from_iframe                           *)
(*                                                                         *)
(* An embed URL is what the code reads of it: the host, the path, the      *)
(* query parameters that have a value, and whether the text "url=" with a  *)
(* value occurs where it is not the parameter url: at the end of another   *)
(* parameter's name (return_url=...) or in the fragment.  A URL that       *)
(* urlparse raises on is the host Malformed.                               *)
(***************************************************************************)

Malformed == "[malformed"

EmbedUrls ==
  [host : {"youtube.com", "vimeo.com", "google.com", "twitter.com",
           "instagram.com", "tiktok.com", "w.soundcloud.com",
           "open.spotify.com", "player.twitch.tv", "codepen.io",
           "gist.github.com", "jsfiddle.net", "example.com", Malformed},
   path : {"/x", "/embed/x", "/video/x", "/maps/embed", "/embedded/x"},
   keys : SUBSET {"src", "url", "channel", "video", "pb"},
   stray_url : BOOLEAN]

\* The return value: the input ("input"), the canonical URL of a platform
\* rule ("canonical"), the URL with /embed/ replaced ("unembedded") or the
\* unquoted value found after src= or url= ("extracted").
ExtractOriginalUrlFromIframe(u) ==
  LET has_embed == u.path = "/embed/x"
      has_url_text == "url" \in u.keys \/ u.stray_url
      Result(kind) == [kind |-> kind]
  IN  IF u.host = Malformed THEN Result("input")
      ELSE IF u.host = "youtube.com" /\ has_embed THEN Result("canonical")
      ELSE IF u.host = "vimeo.com" /\ u.path = "/video/x"
        THEN Result("canonical")
      ELSE IF u.host = "google.com" /\ u.path = "/maps/embed"
        THEN IF "pb" \in u.keys THEN Result("canonical") ELSE Result("input")
      ELSE IF u.host = "twitter.com"
        THEN IF has_url_text THEN Result("extracted") ELSE Result("input")
      ELSE IF u.host = "instagram.com" /\ has_embed THEN Result("canonical")
      ELSE IF u.host = "tiktok.com" /\ has_embed THEN Result("canonical")
      ELSE IF u.host = "w.soundcloud.com"
        THEN IF "url" \in u.keys THEN Result("extracted") ELSE Result("input")
      ELSE IF u.host = "open.spotify.com" /\ has_embed
        THEN Result("canonical")
      ELSE IF u.host = "player.twitch.tv"
        THEN IF {"channel", "video"} \cap u.keys # {}
               THEN Result("canonical") ELSE Result("input")
      ELSE IF u.host = "codepen.io" /\ has_embed THEN Result("canonical")
      ELSE IF u.host = "gist.github.com" THEN Result("canonical")
      ELSE IF u.host = "jsfiddle.net" /\ u.path = "/embedded/x"
        THEN Result("canonical")
      ELSE IF has_embed THEN Result("unembedded")
      ELSE IF "src" \in u.keys \/ has_url_text THEN Result("extracted")
      ELSE Result("input")

CallExtractOriginalUrl ==
  /\ original_url.kind = "pending"
  /\ original_url' = ExtractOriginalUrlFromIframe(embed_url)
  /\ UNCHANGED <<embed_url, rwVars, spliceVars, secVars>>
  /\ UNCHANGED <<procVars, cliVars, umVars, rendVars, tblVars>>

InitEmbedUrl ==
  /\ embed_url \in EmbedUrls
  /\ original_url = [kind |-> "pending"]
  /\ IdleRewriter
  /\ IdleSplice
  /\ IdleSections
  /\ IdleProcessor
  /\ IdleClient
  /\ IdleUnknownMacro
  /\ NewRenderer
  /\ IdleTable

NextEmbedUrl ==
  \/ CallExtractOriginalUrl

SpecEmbedUrl == InitEmbedUrl /\ [][NextEmbedUrl]_vars

\* C21: the resolver returns, and it returns its input when no platform
\* rule gave a canonical URL, the path has no /embed/ segment and the query
\* has neither a src nor a url parameter with a value.
C21_UnmatchedUrlIsReturnedUnchanged ==
  (/\ original_url.kind \notin {"pending", "canonical"}
   /\ embed_url.path # "/embed/x"
   /\ {"src", "url"} \cap embed_url.keys = {}) =>
    original_url.kind = "input"


(***************************************************************************)
(* EnhancedContentRenderer._process_element_recursively                    *)
(*                                                                         *)
(* The elements below the argument, in document order, each with the       *)
(* element enclosing it (0: the argument itself) and whether it has text   *)
(* of its own that is not whitespace.  b stands for strong, b, em, i and   *)
(* code; p for p and h1..h6; span for a tag not in known_elements; li for  *)
(* ol, ul and li, which are in known_elements and in none of the five      *)
(* groups.  An element is in the tree ("tag"), replaced by a string with   *)
(* text ("string") or of whitespace ("blank"), decomposed ("removed"), or  *)
(* gone with an enclosing element that was replaced or decomposed while    *)
(* it was still a tag ("discarded").                                       *)
(***************************************************************************)

MaxElements == 2

ElementTrees ==
  { t \in UNION { [1..k -> [name : {"b", "a", "br", "span", "p", "li"},
                            parent : 0..(MaxElements - 1),
                            text : BOOLEAN]] : k \in 0..MaxElements } :
      /\ IsPreorder(t)
      /\ \A n \in 1..Len(t) : t[n].name = "br" => ~t[n].text }

\* The group of elements_to_process an element is in: 1 formatting, 2 links,
\* 3 breaks, 4 other, 5 blocks; 0: none.
Category(name) ==
  CASE name = "b" -> 1
    [] name = "a" -> 2
    [] name = "br" -> 3
    [] name = "span" -> 4
    [] name = "p" -> 5
    [] name = "li" -> 0

\* The mutant of StillInTree: an element is left alone while an element
\* nested in it is still a tag.
StillInTreeAndFlat(n, st) ==
  /\ st[n] = "tag"
  /\ \A d \in 1..Len(element) : n \in Ancestors(element, d) => st[d] # "tag"

\* elem.parent is not None: an element leaves the tree when it or an
\* element enclosing it is replaced or decomposed.
StillInTree(n, st) == st[n] = "tag"

\* The five loops of one application, one after the other: the elements of
\* find_all() by group, within a group the deepest first, and in document
\* order among equals (sorted is stable).
ElementsToProcess(st) ==
  LET found == { n \in 1..Len(element) :
                   st[n] = "tag" /\ Category(element[n].name) # 0 }
      Depth(n) == Cardinality(Ancestors(element, n))
      Before(m, n) ==
        \/ Category(element[m].name) < Category(element[n].name)
        \/ /\ Category(element[m].name) = Category(element[n].name)
           /\ \/ Depth(m) > Depth(n)
              \/ Depth(m) = Depth(n) /\ m < n
      Place(n) == 1 + Cardinality({ m \in found : Before(m, n) })
  IN  [i \in 1..Cardinality(found) |-> CHOOSE n \in found : Place(n) = i]

\* get_text() of element n: "text", only whitespace ("blank") or nothing
\* ("none").
RECURSIVE TextOf(_, _)
TextOf(n, st) ==
  LET parts == { IF st[c] = "string" THEN "text"
                 ELSE IF st[c] = "blank" THEN "blank"
                 ELSE IF st[c] = "tag" THEN TextOf(c, st)
                 ELSE "none" :
                 c \in { c \in 1..Len(element) : element[c].parent = n } }
  IN  IF element[n].text \/ "text" \in parts THEN "text"
      ELSE IF "blank" \in parts THEN "blank"
      ELSE "none"

\* What the loop of its group makes of element n (lines 1783-1833).
Rewritten(n, st) ==
  LET name == element[n].name
      has_tag == \E c \in 1..Len(element) :
                   element[c].parent = n /\ st[c] = "tag"
  IN  CASE name \in {"b", "a"} ->
             IF TextOf(n, st) = "text" THEN "string" ELSE "removed"
        [] name = "br" -> "blank"
        [] name = "span" ->
             IF TextOf(n, st) = "text" THEN "string"
             ELSE IF TextOf(n, st) = "blank" THEN "blank"
             ELSE "removed"
        [] name = "p" ->
             IF TextOf(n, st) = "text" \/ has_tag THEN "string"
             ELSE "removed"

\* One iteration of one of the five loops.
RewriteElement ==
  /\ pass \in {1, 2}
  /\ todo # <<>>
  /\ LET n == Head(todo)
     IN  status' =
           IF StillInTree(n, status)
           THEN [d \in 1..Len(element) |->
                   IF d = n THEN Rewritten(n, status)
                   ELSE IF n \in Ancestors(element, d) /\ status[d] = "tag"
                     THEN "discarded"
                   ELSE status[d]]
           ELSE status
  /\ todo' = Tail(todo)
  /\ UNCHANGED <<element, pass, after_first, urlVars, spliceVars, secVars>>
  /\ UNCHANGED <<procVars, cliVars, umVars, rendVars, tblVars>>

\* The application returns; after the first, the function is applied to
\* the same tree again.
ReturnFromRewrite ==
  /\ pass \in {1, 2}
  /\ todo = <<>>
  /\ pass' = pass + 1
  /\ IF pass = 1
       THEN /\ after_first' = status
            /\ todo' = ElementsToProcess(status)
       ELSE UNCHANGED <<after_first, todo>>
  /\ UNCHANGED <<element, status, urlVars, spliceVars, secVars>>
  /\ UNCHANGED <<procVars, cliVars, umVars, rendVars, tblVars>>

InitRewriter ==
  /\ element \in ElementTrees
  /\ status = [n \in 1..Len(element) |-> "tag"]
  /\ pass = 1
  /\ todo = ElementsToProcess(status)
  /\ after_first = <<>>
  /\ IdleUrl
  /\ IdleSplice
  /\ IdleSections
  /\ IdleProcessor
  /\ IdleClient
  /\ IdleUnknownMacro
  /\ NewRenderer
  /\ IdleTable

NextRewriter ==
  \/ RewriteElement
  \/ ReturnFromRewrite

SpecRewriter == InitRewriter /\ [][NextRewriter]_vars

\* C22: a second application to a tree the function has rewritten leaves
\* the tree as the first application left it.
C22_RewriteIsIdempotent ==
  pass = 3 => status = after_first

\* C22 witness: both applications are over; the first replaced an element
\* by text, and the second found an element in the tree.
C22_Witness ==
  /\ pass = 3
  /\ \E n \in 1..Len(element) : after_first[n] = "string"
  /\ \E n \in 1..Len(element) : after_first[n] = "tag"

\* C25: no element of the five groups goes with an enclosing element that
\* is rewritten or removed before the element itself has been.
C25_DescendantsAreRewrittenFirst ==
  \A n \in 1..Len(element) :
    Category(element[n].name) # 0 => status[n] # "discarded"


(***************************************************************************)
(* render_content: a macro tag gives way to its replacement                *)
(*                                                                         *)
(* The children of the macro's parent are a sequence of nodes; a node has  *)
(* a kind and an id that tells it from the others (insert_after finds its  *)
(* place by identity).  A new node is a "tag", a "text" string, or a       *)
(* "blank" string of whitespace.                                           *)
(***************************************************************************)

MaxSiblings == 2
MaxNewNodes == 2

NoNode == [kind |-> "none", id |-> 0]

MacroTag == [kind |-> "macro", id |-> 0]

\* NavigableString("")
EmptyString == [kind |-> "empty", id |-> 0]

\* What a parser can return: a string (given as the nodes html.parser makes
\* of it, in which no two strings are neighbours), a Tag, a list, or
\* nothing.
Replacements ==
  LET fragments ==
        { [i \in 1..Len(f) |-> [kind |-> f[i], id |-> i]] :
            f \in UNION { [1..k -> {"tag", "text", "blank"}] :
                            k \in 0..MaxNewNodes } }
  IN  { [type |-> "str", nodes |-> f] :
          f \in { g \in fragments :
                    \A i \in 1..(Len(g) - 1) :
                      g[i].kind = "tag" \/ g[i + 1].kind = "tag" } }
      \cup { [type |-> "list", nodes |-> f] : f \in fragments }
      \cup { [type |-> "Tag", nodes |-> <<[kind |-> "tag", id |-> 1]>>],
             [type |-> "None", nodes |-> <<>>] }

\* new_nodes as lines 667-686 build it.
NewNodes(r) ==
  LET built ==
        IF r.type = "str"
        THEN IF Len(r.nodes) = 1 /\ r.nodes[1].kind = "blank"
               THEN <<EmptyString>>
               ELSE r.nodes
        ELSE IF r.type \in {"Tag", "list"} THEN r.nodes
        ELSE <<>>
  IN  IF built = <<>> THEN <<EmptyString>> ELSE built

\* The mutant of InsertAfter: the node is put before the point.
InsertBefore(seq, point, node) ==
  LET i == CHOOSE j \in 1..Len(seq) : seq[j] = point
  IN  SubSeq(seq, 1, i - 1) \o <<node>> \o SubSeq(seq, i, Len(seq))

\* point.insert_after(node), point being a child of the parent.
InsertAfter(seq, point, node) ==
  LET i == CHOOSE j \in 1..Len(seq) : seq[j] = point
  IN  SubSeq(seq, 1, i) \o <<node>> \o SubSeq(seq, i + 1, Len(seq))

BuildNewNodes ==
  /\ current_insertion_point = NoNode
  /\ new_nodes' = NewNodes(replacement)
  /\ pending_nodes' = new_nodes'
  /\ current_insertion_point' = MacroTag
  /\ UNCHANGED <<replacement, contents, original_contents>>
  /\ UNCHANGED <<urlVars, rwVars, secVars>>
  /\ UNCHANGED <<procVars, cliVars, umVars, rendVars, tblVars>>

InsertNewNode ==
  /\ current_insertion_point # NoNode
  /\ pending_nodes # <<>>
  /\ contents' = InsertAfter(contents, current_insertion_point,
                             Head(pending_nodes))
  /\ current_insertion_point' = Head(pending_nodes)
  /\ pending_nodes' = Tail(pending_nodes)
  /\ UNCHANGED <<replacement, new_nodes, original_contents>>
  /\ UNCHANGED <<urlVars, rwVars, secVars>>
  /\ UNCHANGED <<procVars, cliVars, umVars, rendVars, tblVars>>

DecomposeMacroTag ==
  /\ current_insertion_point # NoNode
  /\ pending_nodes = <<>>
  /\ \E i \in 1..Len(contents) : contents[i] = MacroTag
  /\ contents' = SelectSeq(contents, LAMBDA n : n # MacroTag)
  /\ UNCHANGED <<replacement, new_nodes, pending_nodes,
                 current_insertion_point, original_contents>>
  /\ UNCHANGED <<urlVars, rwVars, secVars>>
  /\ UNCHANGED <<procVars, cliVars, umVars, rendVars, tblVars>>

InitReplaceMacro ==
  /\ replacement \in Replacements
  /\ new_nodes = <<>>
  /\ pending_nodes = <<>>
  /\ current_insertion_point = NoNode
  /\ \E b \in 0..MaxSiblings, a \in 0..MaxSiblings :
       contents = [i \in 1..(b + 1 + a) |->
                     IF i = b + 1 THEN MacroTag
                     ELSE [kind |-> "sibling", id |-> i]]
  /\ original_contents = contents
  /\ IdleUrl
  /\ IdleRewriter
  /\ IdleSections
  /\ IdleProcessor
  /\ IdleClient
  /\ IdleUnknownMacro
  /\ NewRenderer
  /\ IdleTable

NextReplaceMacro ==
  \/ BuildNewNodes
  \/ InsertNewNode
  \/ DecomposeMacroTag

SpecReplaceMacro == InitReplaceMacro /\ [][NextReplaceMacro]_vars

MacroReplaced ==
  /\ current_insertion_point # NoNode
  /\ pending_nodes = <<>>
  /\ \A i \in 1..Len(contents) : contents[i] # MacroTag

\* C24: once the macro is replaced, the children of its parent are those
\* before the macro, then the new nodes in their order, then those after
\* the macro; there is at least one new node, the empty string when the
\* parser returned nothing, an empty list or a string of whitespace, and
\* the nodes of the replacement otherwise.
C24_ReplacementTakesTheMacrosPlace ==
  MacroReplaced =>
    /\ \E i \in 1..Len(original_contents) :
         /\ original_contents[i] = MacroTag
         /\ contents = SubSeq(original_contents, 1, i - 1) \o new_nodes
                         \o SubSeq(original_contents, i + 1,
                                   Len(original_contents))
    /\ Len(new_nodes) >= 1
    /\ new_nodes =
         IF \/ replacement.nodes = <<>>
            \/ /\ replacement.type = "str"
               /\ \A i \in 1..Len(replacement.nodes) :
                    replacement.nodes[i].kind = "blank"
         THEN <<EmptyString>>
         ELSE replacement.nodes

\* C24 witness: a macro with a sibling on either side has been replaced by
\* two nodes.
C24_Witness ==
  /\ MacroReplaced
  /\ Len(new_nodes) = 2
  /\ original_contents[1] # MacroTag
  /\ original_contents[Len(original_contents)] # MacroTag

(***************************************************************************)
(* render_content: the section each table stands in                        *)
(*                                                                         *)
(* The document is the sequence of its headings and tables; a heading has  *)
(* a level and a text (possibly empty), a table its markup.  The document  *)
(* holds no Markdown heading line.                                         *)
(***************************************************************************)

MaxPageItems == 3

PageItems ==
  [kind : {"h"}, level : 1..2, text : {"", "A"}]
  \cup [kind : {"table"}, level : {0}, text : {"T1", "T2"}]

Pages == UNION { [1..k -> PageItems] : k \in 0..MaxPageItems }

\* soup.find_all('table'): where the tables stand, in document order.
AllTableTags(content) ==
  SelectSeq([i \in 1..Len(content) |-> i], LAMBDA i : content[i].kind = "table")

\* html_content.find(table_html_str): the first place the markup stands
\* at; 0 stands for -1.
Find(content, table_html_str) ==
  LET at == { i \in 1..Len(content) : content[i] = table_html_str }
  IN  IF at = {} THEN 0 ELSE Least(at)

\* detect_section_level_and_text on html_content[:position]: the last
\* heading tag if its text is not empty; no Markdown heading line is there
\* to fall back to.
DetectSectionLevelAndText(content, position) ==
  LET heading_tags == { i \in 1..(position - 1) : content[i].kind = "h" }
      last_heading == content[Greatest(heading_tags)]
  IN  IF heading_tags # {} /\ last_heading.text # ""
      THEN [section_text |-> last_heading.text,
            current_level |-> last_heading.level]
      ELSE [section_text |-> None, current_level |-> 0]

\* One iteration of the table loop (lines 747-767).
ConvertTableInSection ==
  /\ placeholder_idx < Len(AllTableTags(html_string))
  /\ LET table_tag == AllTableTags(html_string)[placeholder_idx + 1]
         table_position == Find(html_string, html_string[table_tag])
         section == IF table_position > 0
                    THEN DetectSectionLevelAndText(html_string,
                                                   table_position)
                    ELSE [section_text |-> None, current_level |-> 0]
     IN  conversions' =
           Append(conversions, [table_tag |-> table_tag,
                                section_text |-> section.section_text,
                                current_level |-> section.current_level])
  /\ placeholder_idx' = placeholder_idx + 1
  /\ UNCHANGED html_string
  /\ UNCHANGED <<urlVars, rwVars, spliceVars>>
  /\ UNCHANGED <<procVars, cliVars, umVars, rendVars, tblVars>>

InitTableSections ==
  /\ html_string \in Pages
  /\ placeholder_idx = 0
  /\ conversions = <<>>
  /\ IdleUrl
  /\ IdleRewriter
  /\ IdleSplice
  /\ IdleProcessor
  /\ IdleClient
  /\ IdleUnknownMacro
  /\ NewRenderer
  /\ IdleTable

NextTableSections ==
  \/ ConvertTableInSection

SpecTableSections == InitTableSections /\ [][NextTableSections]_vars

\* C26: every table is converted with the text and the level of the last
\* heading before the table's own place, and with no text and level 0 when
\* no heading stands before it.
C26_TableGetsItsOwnSection ==
  \A j \in 1..Len(conversions) :
    LET before == { i \in 1..(conversions[j].table_tag - 1) :
                     html_string[i].kind = "h" }
    IN  IF before = {}
        THEN /\ conversions[j].section_text = None
             /\ conversions[j].current_level = 0
        ELSE /\ conversions[j].section_text =
                  html_string[Greatest(before)].text
             /\ conversions[j].current_level =
                  html_string[Greatest(before)].level

=============================================================================
